---- MODULE Spec2Model ----
(***************************************************************************)
(* Model of the Sei debug agent's decision logic:                          *)
(*   - SeiDebugAgent.classifyIssue   (src/core/anthropic-client.ts)        *)
(*   - ModelSelector.selectModel / estimateCost / calculateTokenCost       *)
(*     (src/core/model-selector.ts)                                        *)
(*   - SeiDebugAgent.debug / debugParallelExecution / analyzeTransaction / *)
(*     formatDebugReport / extractRootCause / extractSuggestions and       *)
(*     AnthropicClient.formatMessage (src/core/anthropic-client.ts)        *)
(*   - SeiDebugCommands.debugTransaction / debugParallelExecution /        *)
(*     debugGeneralIssue / isValidTxHash (commands/debug-commands.ts)      *)
(*   - CLIHelpers.validateTxHash / extractTxHash / parseCommand /          *)
(*     promptForInput (src/utils/cli-helpers.ts)                           *)
(*   - handleInteractiveMode and the command handlers (src/index.ts)       *)
(*                                                                         *)
(* Strings are sequences of one-character strings, so toLowerCase,         *)
(* String.includes and the transaction-hash regular expression are         *)
(* computed character by character.                                        *)
(*                                                                         *)
(* Dollar amounts are held twice: as exact integers in micro-dollars      *)
(* (1 $ = 1000000: 0.01 $ per search is 10000, 0.075 $ per 1000 tokens is  *)
(* 75000) in estimate, and as the IEEE-754 doubles the JavaScript          *)
(* arithmetic produces in estimate64.                                      *)
(***************************************************************************)
EXTENDS Integers, Sequences, FiniteSets, TLC

VARIABLES issue, userContext, task, model, estimate, pc,
          estimate64,
          calls, selectorLog,
          report, searchResults, analysis, debugReport,
          command, providerCalls, thrown,
          helperText, helperValid, helperHash,
          input, ipc, prompts

\* SeiDebugAgent.debug up to the cost estimate
varsClassify == <<issue, userContext, task, model, estimate, pc, estimate64>>

\* one ModelSelector instance: the calls made on it and the lines it logged
varsCalls == <<calls, selectorLog>>

\* SeiDebugAgent.formatDebugReport: its three arguments and its result
varsReport == <<report, searchResults, analysis, debugReport>>

\* one command of SeiDebugCommands: its arguments, the provider calls made
\* for it with their outcomes, and the error it threw
varsFlow == <<command, providerCalls, thrown>>

\* the CLI helpers applied to one text, and the interactive prompt loop:
\* the line read last, the position in the loop, the prompts shown so far
varsCli == <<helperText, helperValid, helperHash, input, ipc, prompts>>

\* what the classification steps leave alone
varsOther == <<varsCalls, varsReport, varsFlow, varsCli>>

vars == <<varsClassify, varsOther>>

----------------------------------------------------------------------------
(* Bounds of the explored input space.                                     *)

\* an issue text is the concatenation of at most MaxFrags fragments
MaxFrags == 2
\* hand-built descriptors carry 0..MaxSearches estimated searches
MaxSearches == 3
\* at most MaxCalls calls are made on one selector instance
MaxCalls == 3
\* a response text is the concatenation of at most MaxParts parts
MaxParts == 4
\* a response carries at most MaxCitations citations
MaxCitations == 2
\* hand-built descriptors carry 0..MaxTokenSteps * TokenStep estimated tokens
MaxTokenSteps == 6

----------------------------------------------------------------------------
(* Characters and strings.                                                 *)

UpperChars ==
  <<"A","B","C","D","E","F","G","H","I","J","K","L","M",
    "N","O","P","Q","R","S","T","U","V","W","X","Y","Z">>

LowerChars ==
  <<"a","b","c","d","e","f","g","h","i","j","k","l","m",
    "n","o","p","q","r","s","t","u","v","w","x","y","z">>

\* the lower-case letter of every upper-case letter
LowerOf ==
  [c \in {UpperChars[i] : i \in 1..26} |->
     LowerChars[CHOOSE i \in 1..26 : UpperChars[i] = c]]

\* String.prototype.toLowerCase, one character
toLowerCaseChar(c) == IF c \in DOMAIN LowerOf THEN LowerOf[c] ELSE c

\* toLowerCase that leaves every letter as it is
toLowerCase_Identity(s) == s

\* String.prototype.toLowerCase
toLowerCase(s) == [i \in 1..Len(s) |-> toLowerCaseChar(s[i])]

\* String.prototype.includes: needle occurs as a contiguous substring
includes(s, needle) ==
  \E i \in 1..(Len(s) - Len(needle) + 1) :
    \A j \in 1..Len(needle) : s[i + j - 1] = needle[j]

\* the character class [a-fA-F0-9]
HexChars ==
  {"0","1","2","3","4","5","6","7","8","9",
   "a","b","c","d","e","f","A","B","C","D","E","F"}

\* the repetition count of the hash pattern, {64}
HashDigits == 64

\* the pattern /0x[a-fA-F0-9]{64}/ matches s at position i
TxHashMatchesAt(s, i) ==
  /\ i + 1 + HashDigits <= Len(s)
  /\ s[i] = "0"
  /\ s[i + 1] = "x"
  /\ \A j \in 1..HashDigits : s[i + 1 + j] \in HexChars

\* the hash test with a digit run that must end after 64 digits
TxHashTest_ExactRun(s) ==
  \E i \in 1..Len(s) :
    /\ TxHashMatchesAt(s, i)
    /\ (i + 2 + HashDigits <= Len(s) => s[i + 2 + HashDigits] \notin HexChars)

\* /0x[a-fA-F0-9]{64}/.test(s): unanchored search
TxHashTest(s) == \E i \in 1..Len(s) : TxHashMatchesAt(s, i)

----------------------------------------------------------------------------
(* Keywords of classifyIssue.                                              *)

KwGas      == <<"g","a","s">>
KwParallel == <<"p","a","r","a","l","l","e","l">>
KwState    == <<"s","t","a","t","e">>
KwContract == <<"c","o","n","t","r","a","c","t">>
KwRevert   == <<"r","e","v","e","r","t">>
KwFailed   == <<"f","a","i","l","e","d">>
KwError    == <<"e","r","r","o","r">>
KwHow      == <<"h","o","w">>
KwWhat     == <<"w","h","a","t">>
KwStatus   == <<"s","t","a","t","u","s">>
KwCheck    == <<"c","h","e","c","k">>
KwAnalyze  == <<"a","n","a","l","y","z","e">>

----------------------------------------------------------------------------
(* Types (src/types/index.ts).                                             *)

TaskTypes == {"transaction", "contract", "gas", "parallel", "general"}

Complexities == {"high", "medium", "low"}

OPUS_4 == "claude-opus-4-20250514"

SONNET_4 == "claude-sonnet-4-20250514"

\* an optional number that is not present (undefined)
Absent == -1

\* an optional string that is not present (undefined)
AbsentText == <<"undefined">>

NoTask == [type |-> "none"]

NoModel == "none"

NoEstimate == [searchCost |-> -1, tokenCost |-> -1, total |-> -1]

NoEstimate64 == [searchCost |-> "none", tokenCost |-> "none", total |-> "none"]

\* an optional array that is not there
AbsentList == <<"undefined">>

\* an optional array of strings that is not there
AbsentTexts == <<AbsentText>>

\* a response the caller did not pass
NoMessage ==
  [ content |-> <<>>, model |-> "undefined",
    server_tool_use |-> AbsentList, citations |-> AbsentList ]

IsAbsentMessage(m) == m.model = "undefined"

\* no command has been given
NoCommand == [name |-> "none", arg |-> <<>>, userContext |-> AbsentText]

\* no DebugReport has been built
NoReport ==
  [ analysis |-> <<>>, sources |-> <<>>, model |-> "none",
    toolsUsed |-> <<>>, citations |-> <<>>,
    rootCause |-> AbsentText, suggestions |-> AbsentTexts ]

----------------------------------------------------------------------------
(* ModelSelector.                                                          *)

\* selectModel with the two rules tested in the opposite order
selectModel_SimpleFirst(t) ==
  IF t.isSimpleQuery \/ t.isStatusCheck \/ t.complexity = "low"
    THEN SONNET_4
  ELSE IF t.requiresDeepAnalysis \/ t.requiresCodeExecution \/ t.complexity = "high"
    THEN OPUS_4
  ELSE SONNET_4

\* the line selectModel logs on the path it takes
selectModelMessage(t) ==
  IF t.requiresDeepAnalysis \/ t.requiresCodeExecution \/ t.complexity = "high"
    THEN "Selected Claude Opus 4 for complex task"
  ELSE IF t.isSimpleQuery \/ t.isStatusCheck \/ t.complexity = "low"
    THEN "Selected Claude Sonnet 4 for simple task"
  ELSE "Selected Claude Sonnet 4 (default for cost efficiency)"

\* selectModel staying on Opus 4 once the instance has logged an Opus 4
\* selection
selectModel_Sticky(t) ==
  IF \/ t.requiresDeepAnalysis \/ t.requiresCodeExecution
     \/ t.complexity = "high"
     \/ \E i \in DOMAIN selectorLog :
          selectorLog[i] = "Selected Claude Opus 4 for complex task"
    THEN OPUS_4
  ELSE SONNET_4

selectModel(t) ==
  IF t.requiresDeepAnalysis \/ t.requiresCodeExecution \/ t.complexity = "high"
    THEN OPUS_4
  ELSE IF t.isSimpleQuery \/ t.isStatusCheck \/ t.complexity = "low"
    THEN SONNET_4
  ELSE SONNET_4

\* JavaScript `x || d` on an optional number: undefined and 0 are falsy
OrDefault(x, d) == IF x = Absent \/ x = 0 THEN d ELSE x

\* micro-dollars per search (0.01 $)
SearchCostMicros == 10000

\* micro-dollars per 1000 tokens on Opus 4 (0.075 $)
OpusCostPerKToken == 75000

\* micro-dollars per 1000 tokens on Sonnet 4 (0.015 $)
SonnetCostPerKToken == 15000

\* default token count of estimateCost
DefaultTokens == 1000

\* calculateTokenCost with the two rates exchanged
calculateTokenCost_RatesSwapped(tokens, m) ==
  LET costPerKToken == IF m = OPUS_4 THEN SonnetCostPerKToken
                                     ELSE OpusCostPerKToken
  IN  (tokens * costPerKToken) \div 1000

calculateTokenCost(tokens, m) ==
  LET costPerKToken == IF m = OPUS_4 THEN OpusCostPerKToken
                                     ELSE SonnetCostPerKToken
  IN  (tokens * costPerKToken) \div 1000

\* estimateCost whose total leaves the search cost out
estimateCost_TotalDropsSearch(t) ==
  LET searches   == OrDefault(t.estimatedSearches, 0)
      tokens     == OrDefault(t.estimatedTokens, DefaultTokens)
      m          == selectModel(t)
      searchCost == searches * SearchCostMicros
      tokenCost  == calculateTokenCost(tokens, m)
  IN  [searchCost |-> searchCost,
       tokenCost  |-> tokenCost,
       total      |-> tokenCost]

estimateCost(t) ==
  LET searches   == OrDefault(t.estimatedSearches, 0)
      tokens     == OrDefault(t.estimatedTokens, DefaultTokens)
      m          == selectModel(t)
      searchCost == searches * SearchCostMicros
      tokenCost  == calculateTokenCost(tokens, m)
  IN  [searchCost |-> searchCost,
       tokenCost  |-> tokenCost,
       total      |-> searchCost + tokenCost]

----------------------------------------------------------------------------
(* IEEE-754 double arithmetic, as the JavaScript number operators * / +    *)
(* compute it.  A finite non-negative double is [m, e] and stands for      *)
(* m * 2^e, where m is a natural number of at most 53 bits held as a       *)
(* little-endian sequence of 15-bit limbs; m is odd, or zero with e = 0.   *)
(* Every operation rounds its exact result to nearest, ties to even.       *)

\* 2^15, the limb base
LimbBase == 32768

\* bits per limb
LimbBits == 15

\* bits of a double's significand
SignificandBits == 53

RECURSIVE BigTrim(_)
\* a without its most significant zero limbs
BigTrim(a) ==
  IF a = <<>> \/ a[Len(a)] # 0 THEN a
  ELSE BigTrim(SubSeq(a, 1, Len(a) - 1))

RECURSIVE BigFromInt(_)
BigFromInt(n) ==
  IF n = 0 THEN <<>>
  ELSE <<n % LimbBase>> \o BigFromInt(n \div LimbBase)

RECURSIVE BigAddCarry(_, _, _)
BigAddCarry(a, b, c) ==
  IF a = <<>> /\ b = <<>>
    THEN (IF c = 0 THEN <<>> ELSE <<c>>)
  ELSE LET x  == (IF a = <<>> THEN 0 ELSE Head(a))
                 + (IF b = <<>> THEN 0 ELSE Head(b)) + c
           ta == IF a = <<>> THEN <<>> ELSE Tail(a)
           tb == IF b = <<>> THEN <<>> ELSE Tail(b)
       IN  <<x % LimbBase>> \o BigAddCarry(ta, tb, x \div LimbBase)

BigAdd(a, b) == BigTrim(BigAddCarry(a, b, 0))

RECURSIVE BigMulSmallCarry(_, _, _)
\* a * k + c for a one-limb k
BigMulSmallCarry(a, k, c) ==
  IF a = <<>>
    THEN (IF c = 0 THEN <<>> ELSE <<c>>)
  ELSE LET x == Head(a) * k + c
       IN  <<x % LimbBase>> \o BigMulSmallCarry(Tail(a), k, x \div LimbBase)

RECURSIVE BigMul(_, _)
BigMul(a, b) ==
  IF a = <<>> \/ b = <<>> THEN <<>>
  ELSE BigAdd(BigMulSmallCarry(a, Head(b), 0), BigTrim(<<0>> \o BigMul(a, Tail(b))))

RECURSIVE BigDivRem(_, _)
\* quotient and remainder of a by a one-limb d
BigDivRem(a, d) ==
  IF a = <<>> THEN [q |-> <<>>, r |-> 0]
  ELSE LET hi == BigDivRem(Tail(a), d)
           x  == hi.r * LimbBase + Head(a)
       IN  [q |-> <<x \div d>> \o hi.q, r |-> x % d]

\* a * 2^k
BigShl(a, k) ==
  IF a = <<>> THEN <<>>
  ELSE [i \in 1..(k \div LimbBits) |-> 0]
         \o BigMulSmallCarry(a, 2 ^ (k % LimbBits), 0)

\* a \div 2^k, and whether a bit was shifted out
BigShr(a, k) ==
  LET limbs == k \div LimbBits
      low   == SubSeq(a, 1, limbs)
      dr    == BigDivRem(SubSeq(a, limbs + 1, Len(a)), 2 ^ (k % LimbBits))
  IN  [q       |-> BigTrim(dr.q),
       inexact |-> dr.r # 0 \/ \E i \in 1..Len(low) : low[i] # 0]

BigIsOdd(a) == a # <<>> /\ a[1] % 2 = 1

\* number of bits of a
BigBitLen(a) ==
  IF a = <<>> THEN 0
  ELSE LimbBits * (Len(a) - 1)
         + CHOOSE k \in 1..LimbBits :
             2 ^ (k - 1) <= a[Len(a)] /\ a[Len(a)] < 2 ^ k

F64Zero == [m |-> <<>>, e |-> 0]

RECURSIVE F64Canon(_, _)
\* the double m * 2^e with its significand made odd
F64Canon(m, e) ==
  IF m = <<>> THEN F64Zero
  ELSE IF m[1] = 0 THEN F64Canon(Tail(m), e + LimbBits)
  ELSE IF m[1] % 2 = 0 THEN F64Canon(BigShr(m, 1).q, e + 1)
  ELSE [m |-> m, e |-> e]

\* round the exact value m * 2^e (plus a fraction below 2^e if sticky) to a
\* double: to nearest, ties to even
F64Round(m, e, sticky) ==
  LET len == BigBitLen(m)
  IN  IF len <= SignificandBits THEN F64Canon(m, e)
      ELSE LET s     == len - SignificandBits
               half  == BigShr(m, s - 1)
               q     == BigShr(half.q, 1).q
               round == BigIsOdd(half.q)
               rest  == sticky \/ half.inexact
               up    == round /\ (rest \/ BigIsOdd(q))
           IN  F64Canon(IF up THEN BigAdd(q, <<1>>) ELSE q, e + s)

\* the double of a natural number below 2^31
F64FromInt(n) == F64Canon(BigFromInt(n), 0)

\* guard bits of the quotient in F64Div
DivShift == 75

\* n / d for natural numbers n and one-limb d > 0; also the double that the
\* decimal literal n/d denotes when d is a power of ten
F64Div(n, d) ==
  IF n = 0 THEN F64Zero
  ELSE LET dr == BigDivRem(BigShl(BigFromInt(n), DivShift), d)
       IN  F64Round(BigTrim(dr.q), 0 - DivShift, dr.r # 0)

\* a * b
F64Mul(a, b) == F64Round(BigMul(a.m, b.m), a.e + b.e, FALSE)

\* a + b
F64Add(a, b) ==
  LET e == IF a.e < b.e THEN a.e ELSE b.e
  IN  F64Round(BigAdd(BigShl(a.m, a.e - e), BigShl(b.m, b.e - e)), e, FALSE)

\* the literal 0.01
SearchCostF64 == F64Div(1, 100)

\* the literal 0.075
OpusRateF64 == F64Div(75, 1000)

\* the literal 0.015
SonnetRateF64 == F64Div(15, 1000)

\* calculateTokenCost in double arithmetic: (tokens / 1000) * costPerKToken
calculateTokenCostF64(tokens, m) ==
  LET costPerKToken == IF m = OPUS_4 THEN OpusRateF64 ELSE SonnetRateF64
  IN  F64Mul(F64Div(tokens, 1000), costPerKToken)

\* estimateCost in double arithmetic: the numbers the build returns, where
\* estimateCost above gives the exact decimal values of the same expressions
estimateCostF64(t) ==
  LET searches   == OrDefault(t.estimatedSearches, 0)
      tokens     == OrDefault(t.estimatedTokens, DefaultTokens)
      m          == selectModel(t)
      searchCost == F64Mul(F64FromInt(searches), SearchCostF64)
      tokenCost  == calculateTokenCostF64(tokens, m)
  IN  [searchCost |-> searchCost,
       tokenCost  |-> tokenCost,
       total      |-> F64Add(searchCost, tokenCost)]

----------------------------------------------------------------------------
(* SeiDebugAgent.classifyIssue.                                            *)

\* classifyType with the "gas" keyword tested before the hash
classifyType_GasFirst(lowerIssue, hasTransactionHash) ==
  IF includes(lowerIssue, KwGas) THEN "gas"
  ELSE IF hasTransactionHash THEN "transaction"
  ELSE IF includes(lowerIssue, KwParallel) \/ includes(lowerIssue, KwState)
    THEN "parallel"
  ELSE IF includes(lowerIssue, KwContract) THEN "contract"
  ELSE "general"

\* classifyType with "parallel"/"state" tested before "gas"
classifyType_ParallelFirst(lowerIssue, hasTransactionHash) ==
  IF hasTransactionHash THEN "transaction"
  ELSE IF includes(lowerIssue, KwParallel) \/ includes(lowerIssue, KwState)
    THEN "parallel"
  ELSE IF includes(lowerIssue, KwGas) THEN "gas"
  ELSE IF includes(lowerIssue, KwContract) THEN "contract"
  ELSE "general"

\* "Determine type"
classifyType(lowerIssue, hasTransactionHash) ==
  IF hasTransactionHash THEN "transaction"
  ELSE IF includes(lowerIssue, KwGas) THEN "gas"
  ELSE IF includes(lowerIssue, KwParallel) \/ includes(lowerIssue, KwState)
    THEN "parallel"
  ELSE IF includes(lowerIssue, KwContract) THEN "contract"
  ELSE "general"

\* classifyComplexity with the low keywords tested before the high ones
classifyComplexity_LowFirst(lowerIssue) ==
  IF \/ includes(lowerIssue, KwHow)
     \/ includes(lowerIssue, KwWhat)
     \/ includes(lowerIssue, KwStatus)
    THEN "low"
  ELSE IF \/ includes(lowerIssue, KwRevert)
          \/ includes(lowerIssue, KwFailed)
          \/ includes(lowerIssue, KwError)
    THEN "high"
  ELSE "medium"

\* "Determine complexity"
classifyComplexity(lowerIssue) ==
  IF \/ includes(lowerIssue, KwRevert)
     \/ includes(lowerIssue, KwFailed)
     \/ includes(lowerIssue, KwError)
    THEN "high"
  ELSE IF \/ includes(lowerIssue, KwHow)
          \/ includes(lowerIssue, KwWhat)
          \/ includes(lowerIssue, KwStatus)
    THEN "low"
  ELSE "medium"

\* requiresDeepAnalysis without the "parallel" alternative
requiresDeepAnalysis_HighOnly(complexity, type) ==
  complexity = "high"

\* requiresDeepAnalysis: complexity === "high" || type === "parallel"
requiresDeepAnalysis(complexity, type) ==
  complexity = "high" \/ type = "parallel"

\* requiresCodeExecution without the gas kind
requiresCodeExecution_HashOrAnalyze(lowerIssue, hasTransactionHash, type) ==
  hasTransactionHash \/ includes(lowerIssue, KwAnalyze)

\* requiresCodeExecution without the "analyze" alternative
requiresCodeExecution_NoAnalyze(lowerIssue, hasTransactionHash, type) ==
  \/ hasTransactionHash
  \/ type = "gas"

\* requiresCodeExecution: hasTransactionHash || type === "gas"
\*                        || lowerIssue.includes("analyze")
requiresCodeExecution(lowerIssue, hasTransactionHash, type) ==
  \/ hasTransactionHash
  \/ type = "gas"
  \/ includes(lowerIssue, KwAnalyze)

\* isSimpleQuery without the hash test
isSimpleQuery_IgnoresHash(complexity, hasTransactionHash) ==
  complexity = "low"

\* isSimpleQuery: complexity === "low" && !hasTransactionHash
isSimpleQuery(complexity, hasTransactionHash) ==
  complexity = "low" /\ ~hasTransactionHash

\* isStatusCheck: lowerIssue.includes("status") || lowerIssue.includes("check")
isStatusCheck(lowerIssue) ==
  includes(lowerIssue, KwStatus) \/ includes(lowerIssue, KwCheck)

\* estimatedSearches: hasTransactionHash ? 3 : 2
estimatedSearches(hasTransactionHash) ==
  IF hasTransactionHash THEN 3 ELSE 2

\* estimatedTokens with the two branches exchanged
estimatedTokens_Swapped(complexity) ==
  IF complexity = "high" THEN 1500 ELSE 3000

\* estimatedTokens: complexity === "high" ? 3000 : 1500
estimatedTokens(complexity) ==
  IF complexity = "high" THEN 3000 ELSE 1500

\* classifyIssue that stores the lower-cased text as the task's data
classifyIssue_LowerData(iss, ctx) ==
  LET lowerIssue         == toLowerCase(iss)
      hasTransactionHash == TxHashTest(iss)
      type               == classifyType(lowerIssue, hasTransactionHash)
      complexity         == classifyComplexity(lowerIssue)
  IN  [type                  |-> type,
       complexity            |-> complexity,
       data                  |-> lowerIssue,
       userContext           |-> ctx,
       requiresDeepAnalysis  |-> requiresDeepAnalysis(complexity, type),
       requiresCodeExecution |-> requiresCodeExecution(lowerIssue,
                                                       hasTransactionHash, type),
       isSimpleQuery         |-> isSimpleQuery(complexity, hasTransactionHash),
       isStatusCheck         |-> isStatusCheck(lowerIssue),
       estimatedSearches     |-> estimatedSearches(hasTransactionHash),
       estimatedTokens       |-> estimatedTokens(complexity)]

classifyIssue(iss, ctx) ==
  LET lowerIssue         == toLowerCase(iss)
      hasTransactionHash == TxHashTest(iss)
      type               == classifyType(lowerIssue, hasTransactionHash)
      complexity         == classifyComplexity(lowerIssue)
  IN  [type                  |-> type,
       complexity            |-> complexity,
       data                  |-> iss,
       userContext           |-> ctx,
       requiresDeepAnalysis  |-> requiresDeepAnalysis(complexity, type),
       requiresCodeExecution |-> requiresCodeExecution(lowerIssue,
                                                       hasTransactionHash, type),
       isSimpleQuery         |-> isSimpleQuery(complexity, hasTransactionHash),
       isStatusCheck         |-> isStatusCheck(lowerIssue),
       estimatedSearches     |-> estimatedSearches(hasTransactionHash),
       estimatedTokens       |-> estimatedTokens(complexity)]

----------------------------------------------------------------------------
(* Inputs.                                                                 *)

\* n copies of the character c
Run(n, c) == [i \in 1..n |-> c]

\* "0x" followed by 64 lower-case hex digits
HashLower == <<"0","x">> \o Run(HashDigits, "a")

\* "0x" followed by 64 upper-case and decimal hex digits
HashUpper == <<"0","x">> \o Run(HashDigits - 1, "F") \o <<"9">>

\* upper-case prefix: "0X" followed by 64 hex digits
HashBigX == <<"0","X">> \o Run(HashDigits, "a")

\* one digit short: "0x" followed by 63 hex digits
HashShort == <<"0","x">> \o Run(HashDigits - 1, "a")

\* the scenario input "what is the status"
TextWhatIsTheStatus ==
  <<"w","h","a","t"," ","i","s"," ","t","h","e"," ","s","t","a","t","u","s">>

\* the README's example "transaction failed with revert"
TextFailedWithRevert ==
  <<"t","r","a","n","s","a","c","t","i","o","n"," ","f","a","i","l","e","d",
    " ","w","i","t","h"," ","r","e","v","e","r","t">>

\* the README's example "contract call consuming too much gas on Sei"
TextContractGas ==
  <<"c","o","n","t","r","a","c","t"," ","c","a","l","l"," ",
    "c","o","n","s","u","m","i","n","g"," ","t","o","o"," ","m","u","c","h",
    " ","g","a","s"," ","o","n"," ","S","e","i">>

\* the README's example "gas analyze high usage in my contract"
TextGasAnalyze ==
  <<"g","a","s"," ","a","n","a","l","y","z","e"," ","h","i","g","h"," ",
    "u","s","a","g","e"," ","i","n"," ","m","y"," ",
    "c","o","n","t","r","a","c","t">>

Fragments ==
  { KwGas, KwParallel, KwState, KwContract, KwRevert, KwFailed, KwError,
    KwHow, KwWhat, KwStatus, KwCheck, KwAnalyze,
    <<"E","R","R","O","R">>, <<"G","a","s">>, <<"t","x">>, <<" ">>, <<"f">>,
    HashLower, HashUpper, HashBigX, HashShort }

RECURSIVE FragTexts(_)
\* all concatenations of at most n fragments
FragTexts(n) ==
  IF n = 0 THEN { <<>> }
  ELSE LET shorter == FragTexts(n - 1)
       IN  shorter \cup { t \o f : t \in shorter, f \in Fragments }

IssueTexts ==
  FragTexts(MaxFrags) \cup
    {TextWhatIsTheStatus, TextFailedWithRevert, TextContractGas, TextGasAnalyze}

UserContexts == { AbsentText, <<"e","v","m">> }

TokenStep == 500

\* descriptors built by hand, as the selector's callers and tests do
HandBuiltTasks ==
  [ type                  : TaskTypes,
    complexity            : Complexities,
    data                  : { <<"t","e","s","t">> },
    userContext           : { AbsentText },
    requiresDeepAnalysis  : BOOLEAN,
    requiresCodeExecution : BOOLEAN,
    isSimpleQuery         : BOOLEAN,
    isStatusCheck         : BOOLEAN,
    estimatedSearches     : {Absent} \cup 0..MaxSearches,
    estimatedTokens       : {Absent} \cup { k * TokenStep : k \in 0..MaxTokenSteps } ]

----------------------------------------------------------------------------
(* SeiDebugAgent.debug up to the first provider call: the issue is         *)
(* classified, then the cost estimate of the classified task is logged.    *)

\* no call has been made on the selector instance
CallsIdle ==
  /\ calls = <<>>
  /\ selectorLog = <<>>

\* the CLI is not in use
CliIdle ==
  /\ helperText = <<>>
  /\ helperValid = "none"
  /\ helperHash = AbsentText
  /\ input = AbsentText
  /\ ipc = "idle"
  /\ prompts = 0

\* no command is running
FlowIdle ==
  /\ command = NoCommand
  /\ providerCalls = <<>>
  /\ thrown = "none"

\* no report is being assembled
ReportIdle ==
  /\ report = NoMessage
  /\ searchResults = NoMessage
  /\ analysis = NoMessage
  /\ debugReport = NoReport

\* no issue is being classified
ClassifyIdle ==
  /\ issue = <<>>
  /\ userContext = AbsentText
  /\ task = NoTask
  /\ model = NoModel
  /\ estimate = NoEstimate
  /\ estimate64 = NoEstimate64
  /\ pc = "idle"

Init ==
  /\ issue \in IssueTexts
  /\ userContext \in UserContexts
  /\ task = NoTask
  /\ model = NoModel
  /\ estimate = NoEstimate
  /\ estimate64 = NoEstimate64
  /\ pc = "start"
  /\ CallsIdle
  /\ ReportIdle
  /\ FlowIdle
  /\ CliIdle

\* const task = this.classifyIssue(issue, userContext)
ClassifyIssue ==
  /\ pc = "start"
  /\ task' = classifyIssue(issue, userContext)
  /\ pc' = "classified"
  /\ UNCHANGED <<issue, userContext, model, estimate, estimate64, varsOther>>

\* this.modelSelector.logCostEstimate(task)
logCostEstimate ==
  /\ pc = "classified"
  /\ estimate' = estimateCost(task)
  /\ estimate64' = estimateCostF64(task)
  /\ model' = selectModel(task)
  /\ pc' = "estimated"
  /\ UNCHANGED <<issue, userContext, task, varsOther>>

Next == ClassifyIssue \/ logCostEstimate

Spec == Init /\ [][Next]_vars

----------------------------------------------------------------------------
(* The selector called directly on a hand-built descriptor.                *)

InitSelector ==
  /\ task \in HandBuiltTasks
  /\ issue = task.data
  /\ userContext = task.userContext
  /\ model = NoModel
  /\ estimate = NoEstimate
  /\ estimate64 = NoEstimate64
  /\ pc = "task"
  /\ CallsIdle
  /\ ReportIdle
  /\ FlowIdle
  /\ CliIdle

\* modelSelector.selectModel(task)
SelectModel ==
  /\ pc = "task"
  /\ model' = selectModel(task)
  /\ UNCHANGED <<issue, userContext, task, estimate, estimate64, pc, varsOther>>

\* modelSelector.estimateCost(task)
EstimateCost ==
  /\ pc = "task"
  /\ estimate' = estimateCost(task)
  /\ estimate64' = estimateCostF64(task)
  /\ UNCHANGED <<issue, userContext, task, model, pc, varsOther>>

NextSelector == SelectModel \/ EstimateCost

SpecSelector == InitSelector /\ [][NextSelector]_vars

----------------------------------------------------------------------------
(* Several calls on one selector instance, on any descriptors in any order. *)

\* the descriptors the calls are made on
CallTasks ==
  { t \in HandBuiltTasks :
      /\ t.type = "general"
      /\ ~t.requiresCodeExecution
      /\ ~t.isStatusCheck
      /\ ~t.requiresDeepAnalysis
      /\ t.estimatedSearches = 2
      /\ t.estimatedTokens = 1500 }

InitCalls ==
  /\ ClassifyIdle
  /\ ReportIdle
  /\ FlowIdle
  /\ CliIdle
  /\ calls = <<>>
  /\ selectorLog = <<>>

\* selector.selectModel(t)
CallSelectModel ==
  /\ Len(calls) < MaxCalls
  /\ \E t \in CallTasks :
       /\ calls' = Append(calls, [op |-> "selectModel", task |-> t,
                                  result |-> selectModel(t)])
       /\ selectorLog' = Append(selectorLog, selectModelMessage(t))
  /\ UNCHANGED <<varsClassify, varsReport, varsFlow, varsCli>>

\* selector.estimateCost(t), which calls selectModel(t)
CallEstimateCost ==
  /\ Len(calls) < MaxCalls
  /\ \E t \in CallTasks :
       /\ calls' = Append(calls, [op |-> "estimateCost", task |-> t,
                                  result |-> estimateCost(t)])
       /\ selectorLog' = Append(selectorLog, selectModelMessage(t))
  /\ UNCHANGED <<varsClassify, varsReport, varsFlow, varsCli>>

NextCalls == CallSelectModel \/ CallEstimateCost

SpecCalls == InitCalls /\ [][NextCalls]_vars

----------------------------------------------------------------------------
(* The estimator on both kinds of descriptor: classified from an issue     *)
(* text, and built by hand.                                                *)

InitCost == Init \/ InitSelector

NextCost == Next \/ NextSelector

SpecCost == InitCost /\ [][NextCost]_vars

----------------------------------------------------------------------------
(* Report assembly: SeiDebugAgent.formatDebugReport, extractRootCause and  *)
(* extractSuggestions.  A Citation is represented by its url.              *)

\* the character U+2022
Bullet == "u2022"

DigitChars == {"0","1","2","3","4","5","6","7","8","9"}

\* the characters of the class \s that occur in the explored texts
WhitespaceChars == {" ", "\n", "\t", "\r"}

KwRootCause == <<"r","o","o","t"," ","c","a","u","s","e">>

RECURSIVE RunLen(_, _, _)
\* the number of consecutive characters of s from position p on that are
\* in the class cls
RunLen(s, p, cls) ==
  IF p > Len(s) \/ s[p] \notin cls THEN 0 ELSE 1 + RunLen(s, p + 1, cls)

RECURSIVE RunLenNot(_, _, _)
\* the same for the negated class [^...]
RunLenNot(s, p, cls) ==
  IF p > Len(s) \/ s[p] \in cls THEN 0 ELSE 1 + RunLenNot(s, p + 1, cls)

RECURSIVE JoinTexts_NoSeparator(_)
\* join with the empty separator
JoinTexts_NoSeparator(texts) ==
  IF texts = <<>> THEN <<>>
  ELSE (IF Head(texts) = AbsentText THEN <<>> ELSE Head(texts))
         \o JoinTexts_NoSeparator(Tail(texts))

RECURSIVE JoinTexts(_)
\* texts.join(" "); an undefined element is joined as the empty string
JoinTexts(texts) ==
  IF texts = <<>> THEN <<>>
  ELSE LET h == IF Head(texts) = AbsentText THEN <<>> ELSE Head(texts)
       IN  IF Len(texts) = 1 THEN h
           ELSE h \o <<" ">> \o JoinTexts(Tail(texts))

\* content.filter(c => c.type === "text").map(c => c.text).join(" ")
textContent(content) ==
  JoinTexts([ i \in 1..Len(SelectSeq(content, LAMBDA c : c.type = "text"))
                |-> SelectSeq(content, LAMBDA c : c.type = "text")[i].text ])

\* RootCauseGroupAt leaving the closing period out of the group
RootCauseGroupAt_NoPeriod(s, i) ==
  IF i + 9 > Len(s) \/ toLowerCase(SubSeq(s, i, i + 9)) # KwRootCause
    THEN AbsentText
  ELSE
    LET p0  == i + 10
        run == RunLen(s, p0, WhitespaceChars \cup {":"})
        ks  == { k \in 1..run :
                   LET g == RunLenNot(s, p0 + k, {"."})
                   IN  g >= 1 /\ p0 + k + g <= Len(s) }
    IN  IF ks = {} THEN AbsentText
        ELSE LET k == CHOOSE x \in ks : \A y \in ks : y <= x
                 g == RunLenNot(s, p0 + k, {"."})
             IN  SubSeq(s, p0 + k, p0 + k + g - 1)

\* /root cause[:\s]+([^.]+\.)/i tried at position i: the capture group, or
\* AbsentText when the pattern does not match there.  [:\s]+ takes as many
\* characters as it can and gives them back one at a time until the group
\* matches.
RootCauseGroupAt(s, i) ==
  IF i + 9 > Len(s) \/ toLowerCase(SubSeq(s, i, i + 9)) # KwRootCause
    THEN AbsentText
  ELSE
    LET p0  == i + 10
        run == RunLen(s, p0, WhitespaceChars \cup {":"})
        ks  == { k \in 1..run :
                   LET g == RunLenNot(s, p0 + k, {"."})
                   IN  g >= 1 /\ p0 + k + g <= Len(s) }
    IN  IF ks = {} THEN AbsentText
        ELSE LET k == CHOOSE x \in ks : \A y \in ks : y <= x
                 g == RunLenNot(s, p0 + k, {"."})
             IN  SubSeq(s, p0 + k, p0 + k + g)

\* textContent.match(/root cause[:\s]+([^.]+\.)/i)?.[1]
RootCauseOf(s) ==
  LET is == { i \in 1..Len(s) : RootCauseGroupAt(s, i) # AbsentText }
  IN  IF is = {} THEN AbsentText
      ELSE RootCauseGroupAt(s, CHOOSE i \in is : \A j \in is : i <= j)

extractRootCause(content) == RootCauseOf(textContent(content))

\* the length of (\d+\.|\u2022|\*) matched at position i, 0 without a match
MarkerLenAt(s, i) ==
  IF i > Len(s) THEN 0
  ELSE IF s[i] \in DigitChars
    THEN LET n == RunLen(s, i, DigitChars)
         IN  IF i + n <= Len(s) /\ s[i + n] = "." THEN n + 1 ELSE 0
  ELSE IF s[i] = Bullet \/ s[i] = "*" THEN 1
  ELSE 0

\* /(\d+\.|\u2022|\*)\s*([^.\n]+\.)/ tried at position i: the position of the
\* last matched character, 0 without a match.  \s* takes as much white
\* space as it can and gives it back until the item text matches.
ItemEndAt(s, i) ==
  LET m == MarkerLenAt(s, i)
  IN  IF m = 0 THEN 0
      ELSE
        LET p0  == i + m
            run == RunLen(s, p0, WhitespaceChars)
            ks  == { k \in 0..run :
                       LET g == RunLenNot(s, p0 + k, {".", "\n"})
                       IN  /\ g >= 1
                           /\ p0 + k + g <= Len(s)
                           /\ s[p0 + k + g] = "." }
        IN  IF ks = {} THEN 0
            ELSE LET k == CHOOSE x \in ks : \A y \in ks : y <= x
                 IN  p0 + k + RunLenNot(s, p0 + k, {".", "\n"})

RECURSIVE MatchItems(_, _)
\* textContent.match(/.../g): the matches from position i on, left to
\* right, each search resuming after the previous match
MatchItems(s, i) ==
  IF i > Len(s) THEN <<>>
  ELSE LET e == ItemEndAt(s, i)
       IN  IF e = 0 THEN MatchItems(s, i + 1)
           ELSE <<SubSeq(s, i, e)>> \o MatchItems(s, e + 1)

\* StripMarker removing the marker only
StripMarker_KeepsWhitespace(s) ==
  LET is == { i \in 1..Len(s) : MarkerLenAt(s, i) > 0 }
  IN  IF is = {} THEN s
      ELSE LET i == CHOOSE x \in is : \A y \in is : x <= y
               m == MarkerLenAt(s, i)
           IN  SubSeq(s, 1, i - 1) \o SubSeq(s, i + m, Len(s))

\* s.replace(/(\d+\.|\u2022|\*)\s*/, ""): the first marker of s and the white
\* space after it are removed
StripMarker(s) ==
  LET is == { i \in 1..Len(s) : MarkerLenAt(s, i) > 0 }
  IN  IF is = {} THEN s
      ELSE LET i == CHOOSE x \in is : \A y \in is : x <= y
               m == MarkerLenAt(s, i)
               w == RunLen(s, i + m, WhitespaceChars)
           IN  SubSeq(s, 1, i - 1) \o SubSeq(s, i + m + w, Len(s))

\* SuggestionsOf giving an empty list when nothing matches
SuggestionsOf_EmptyList(s) ==
  LET ms == MatchItems(s, 1)
  IN  [ i \in 1..Len(ms) |-> StripMarker(ms[i]) ]

\* textContent.match(...)?.map(s => s.replace(...))
SuggestionsOf(s) ==
  LET ms == MatchItems(s, 1)
  IN  IF ms = <<>> THEN AbsentTexts
      ELSE [ i \in 1..Len(ms) |-> StripMarker(ms[i]) ]

extractSuggestions(content) == SuggestionsOf(textContent(content))

\* m?.citations || []
CitationsOf(m) ==
  IF IsAbsentMessage(m) \/ m.citations = AbsentList THEN <<>> ELSE m.citations

\* m?.server_tool_use || []
ToolsOf(m) ==
  IF IsAbsentMessage(m) \/ m.server_tool_use = AbsentList
    THEN <<>> ELSE m.server_tool_use

\* Distinct keeping every occurrence
Distinct_KeepsAll(xs) == xs

RECURSIVE Distinct(_)
\* [...new Set(xs)]: the first occurrence of every element, in order
Distinct(xs) ==
  IF xs = <<>> THEN <<>>
  ELSE LET init == Distinct(SubSeq(xs, 1, Len(xs) - 1))
           last == xs[Len(xs)]
       IN  IF \E i \in DOMAIN init : init[i] = last THEN init
           ELSE Append(init, last)

\* formatDebugReport taking the analysis citations before the search ones
formatDebugReport_AnalysisFirst(rep, sr, an) ==
  LET allCitations == CitationsOf(rep) \o CitationsOf(an) \o CitationsOf(sr)
      toolsUsed    == ToolsOf(rep) \o ToolsOf(sr) \o ToolsOf(an)
  IN  [ analysis    |-> rep.content,
        sources     |-> allCitations,
        model       |-> rep.model,
        toolsUsed   |-> Distinct(toolsUsed),
        citations   |-> allCitations,
        rootCause   |-> extractRootCause(rep.content),
        suggestions |-> extractSuggestions(rep.content) ]

formatDebugReport(rep, sr, an) ==
  LET allCitations == CitationsOf(rep) \o CitationsOf(sr) \o CitationsOf(an)
      toolsUsed    == ToolsOf(rep) \o ToolsOf(sr) \o ToolsOf(an)
  IN  [ analysis    |-> rep.content,
        sources     |-> allCitations,
        model       |-> rep.model,
        toolsUsed   |-> Distinct(toolsUsed),
        citations   |-> allCitations,
        rootCause   |-> extractRootCause(rep.content),
        suggestions |-> extractSuggestions(rep.content) ]

----------------------------------------------------------------------------
(* formatDebugReport applied to hand-built responses.                      *)

PartLabel == <<"R","o","o","t"," ","c","a","u","s","e">>

PartWords ==
  <<"n","o","n","c","e"," ","c","o","l","l","i","s","i","o","n">>

\* the parts response texts are put together from
ReportParts ==
  { PartLabel, PartWords, <<":">>, <<" ">>, <<"\n">>, <<".">>, <<"1">>,
    <<"*">> }

RECURSIVE PartTexts(_)
\* the concatenations of at most n parts
PartTexts(n) ==
  IF n = 0 THEN { <<>> }
  ELSE LET shorter == PartTexts(n - 1)
       IN  shorter \cup { t \o f : t \in shorter, f \in ReportParts }

\* "Root cause: nonce collision. Try X."
TextRootCauseExample ==
  <<"R","o","o","t"," ","c","a","u","s","e",":"," ","n","o","n","c","e"," ",
    "c","o","l","l","i","s","i","o","n","."," ","T","r","y"," ","X",".">>

\* a label in capitals, a tab, a numbered and a bulleted item
TextUpperLabelList ==
  <<"R","O","O","T"," ","C","A","U","S","E",":","\t","n","o","n","c","e",
    " ","c","o","l","l","i","s","i","o","n",".","\n","1","2","."," ","I",
    "n","c","r","e","a","s","e"," ","g","a","s"," ","l","i","m","i","t",".",
    "\n",Bullet," ","R","e","t","r","y",".">>

\* "Root cause: ... unclear."
TextEllipsis ==
  <<"R","o","o","t"," ","c","a","u","s","e",":"," ",".",".","."," ","u","n",
    "c","l","e","a","r",".">>

\* a label followed by a period at once, then a second label
TextTwoLabels ==
  <<"R","o","o","t"," ","c","a","u","s","e",":","."," ","R","o","o","t"," ",
    "c","a","u","s","e",":"," ","n","o","n","c","e"," ","c","o","l","l","i",
    "s","i","o","n",".">>

\* two numbered items, each ending in a period
TextTwoItems ==
  <<"1","."," ","I","n","c","r","e","a","s","e"," ","g","a","s"," ","l","i",
    "m","i","t",".","\n","2","."," ","R","e","t","r","y",".">>

\* two numbered items, the first without a period
TextItemNoPeriod ==
  <<"1","."," ","I","n","c","r","e","a","s","e"," ","g","a","s"," ","l","i",
    "m","i","t","\n","2","."," ","R","e","t","r","y",".">>

\* a version number and an asterisk inside a sentence
TextInlineMarkers ==
  <<"U","p","g","r","a","d","e"," ","t","o"," ","v","2",".","0"," ","a","n",
    "d"," ","s","e","t"," ","g","a","s"," ","*"," ","2"," ","n","o","w",
    ".">>

ReportTexts ==
  PartTexts(MaxParts)
    \cup { TextRootCauseExample, TextUpperLabelList, TextEllipsis,
           TextTwoLabels, TextTwoItems, TextItemNoPeriod, TextInlineMarkers }

TextSegment(t) == [type |-> "text", text |-> t, citations |-> AbsentList]

\* a text segment with citations
CitedSegment(t, cs) == [type |-> "text", text |-> t, citations |-> cs]

\* a segment that is not text
ToolSegment ==
  [type |-> "server_tool_use", text |-> AbsentText, citations |-> AbsentList]

\* a response whose label is split over two text segments
ContentSplitLabel ==
  <<TextSegment(<<"R","o","o","t">>), ToolSegment,
    TextSegment(<<"c","a","u","s","e",":"," ">> \o PartWords \o <<".">>)>>

\* a response whose list marker and item are two adjacent text segments
ContentSplitItem ==
  <<TextSegment(<<"1",".">>), TextSegment(PartWords \o <<".">>),
    TextSegment(AbsentText)>>

ReportContents ==
  { <<>>, <<ToolSegment>>, <<ToolSegment, ToolSegment>>,
    <<TextSegment(AbsentText)>>, ContentSplitLabel, ContentSplitItem }
    \cup { <<TextSegment(t)>> : t \in ReportTexts }
    \cup { <<TextSegment(a), ToolSegment, TextSegment(b)>> :
             a \in PartTexts(1), b \in PartTexts(1) }

Citations == { "https://docs.sei.io", "https://seitrace.com" }

RECURSIVE CitationSeqs(_)
\* the citation lists of at most n entries
CitationSeqs(n) ==
  IF n = 0 THEN { <<>> }
  ELSE LET shorter == CitationSeqs(n - 1)
       IN  shorter \cup { Append(cs, c) : cs \in shorter, c \in Citations }

CitationLists == CitationSeqs(MaxCitations) \cup { AbsentList }

ToolLists ==
  { AbsentList, <<>>, <<"web_search">>, <<"code_execution">>,
    <<"web_search", "code_execution">>, <<"code_execution", "web_search">>,
    <<"web_search", "web_search">> }

\* responses whose content varies
ContentMessages ==
  [ content         : ReportContents,
    model           : { OPUS_4 },
    server_tool_use : { <<"web_search", "code_execution">> },
    citations       : { <<"https://docs.sei.io">> } ]

\* responses whose citations vary
CitationMessages ==
  [ content         : { <<TextSegment(TextRootCauseExample)>> },
    model           : { OPUS_4 },
    server_tool_use : { <<>> },
    citations       : CitationLists ]

\* responses whose tool names vary
ToolMessages ==
  [ content         : { <<TextSegment(TextTwoItems)>> },
    model           : { SONNET_4 },
    server_tool_use : ToolLists,
    citations       : { <<>> } ]

InitAssembler ==
  /\ ClassifyIdle
  /\ CallsIdle
  /\ FlowIdle
  /\ CliIdle
  /\ debugReport = NoReport
  /\ \/ /\ report \in ContentMessages
        /\ searchResults = NoMessage
        /\ analysis = NoMessage
     \/ /\ report \in CitationMessages
        /\ searchResults \in CitationMessages \cup { NoMessage }
        /\ analysis \in CitationMessages \cup { NoMessage }
     \/ /\ report \in ToolMessages
        /\ searchResults \in ToolMessages \cup { NoMessage }
        /\ analysis \in ToolMessages \cup { NoMessage }

\* return this.formatDebugReport(report, searchResults, analysis)
FormatDebugReport ==
  /\ debugReport.model = "none"
  /\ debugReport' = formatDebugReport(report, searchResults, analysis)
  /\ UNCHANGED <<varsClassify, varsCalls, varsFlow, varsCli, report,
                 searchResults,
                 analysis>>

NextAssembler == FormatDebugReport

SpecAssembler == InitAssembler /\ [][NextAssembler]_vars

----------------------------------------------------------------------------
(* The commands of SeiDebugCommands and the debug sessions of             *)
(* SeiDebugAgent they start.  Every provider call either returns a        *)
(* response or fails with an error.                                        *)

\* isValidTxHash without the anchors
isValidTxHash_Unanchored(hash) == TxHashTest(hash)

\* /^0x[a-fA-F0-9]{64}$/.test(hash): the whole string
isValidTxHash(hash) ==
  Len(hash) = 2 + HashDigits /\ TxHashMatchesAt(hash, 1)

InvalidTxHashMessage == "Invalid transaction hash format"

DebugTransactionPrefix ==
  <<"D","e","b","u","g"," ","t","r","a","n","s","a","c","t","i","o","n",
    " ">>

\* `Debug transaction ${txHash}${userContext ? ` - ${userContext}` : ""}`
debugTransactionIssue(txHash, ctx) ==
  DebugTransactionPrefix \o txHash
    \o (IF ctx = AbsentText \/ ctx = <<>> THEN <<>>
        ELSE <<" ", "-", " ">> \o ctx)

\* the descriptor debugParallelExecution builds
parallelTask(txHash, ctx) ==
  [ type                  |-> "parallel",
    complexity            |-> "high",
    data                  |-> txHash,
    userContext           |-> ctx,
    requiresDeepAnalysis  |-> TRUE,
    requiresCodeExecution |-> TRUE,
    isSimpleQuery         |-> FALSE,
    isStatusCheck         |-> FALSE,
    estimatedSearches     |-> Absent,
    estimatedTokens       |-> Absent ]

\* the descriptor of generateReport without the deep analysis
reportTask_NoDeepAnalysis(issueText) ==
  [ type                  |-> "general",
    complexity            |-> "medium",
    data                  |-> issueText,
    userContext           |-> AbsentText,
    requiresDeepAnalysis  |-> FALSE,
    requiresCodeExecution |-> FALSE,
    isSimpleQuery         |-> FALSE,
    isStatusCheck         |-> FALSE,
    estimatedSearches     |-> Absent,
    estimatedTokens       |-> Absent ]

\* the descriptor generateReport builds
reportTask(issueText) ==
  [ type                  |-> "general",
    complexity            |-> "medium",
    data                  |-> issueText,
    userContext           |-> AbsentText,
    requiresDeepAnalysis  |-> TRUE,
    requiresCodeExecution |-> FALSE,
    isSimpleQuery         |-> FALSE,
    isStatusCheck         |-> FALSE,
    estimatedSearches     |-> Absent,
    estimatedTokens       |-> Absent ]

RECURSIVE FlatCitations(_)
\* the citations of the text segments that have some, in segment order
FlatCitations(content) ==
  IF content = <<>> THEN <<>>
  ELSE LET c == Head(content)
       IN  (IF c.type = "text" /\ c.citations # AbsentList
              THEN c.citations ELSE <<>>)
             \o FlatCitations(Tail(content))

\* formatMessage reporting the web search only
formatMessage_WebSearchOnly(raw) ==
  [ content         |-> raw.content,
    model           |-> raw.model,
    server_tool_use |-> IF raw.tool_use THEN <<"web_search">> ELSE <<>>,
    citations       |-> FlatCitations(raw.content) ]

\* AnthropicClient.formatMessage; tool_use is msg.usage?.tool_use
formatMessage(raw) ==
  [ content         |-> raw.content,
    model           |-> raw.model,
    server_tool_use |-> IF raw.tool_use
                          THEN <<"web_search", "code_execution">> ELSE <<>>,
    citations       |-> FlatCitations(raw.content) ]

\* the contents a provider response may carry
RawContents ==
  { <<>>,
    <<CitedSegment(TextRootCauseExample, <<"https://docs.sei.io">>)>>,
    <<ToolSegment, TextSegment(TextTwoItems)>> }

\* the responses of the provider to a request for model mdl
RawResponses(mdl) ==
  [ content : RawContents, model : { mdl }, tool_use : BOOLEAN ]

\* the errors a provider call may fail with
ProviderErrors == { "overloaded_error", "rate_limit_error" }

KwNonce == <<"n","o","n","c","e">>

\* searchResults.content.some(c => c.text?.includes("revert") || ...)
mentionsConflict(content) ==
  \E i \in DOMAIN content :
    /\ content[i].text # AbsentText
    /\ \/ includes(content[i].text, KwRevert)
       \/ includes(content[i].text, KwState)
       \/ includes(content[i].text, KwNonce)

TextInvalidHash ==
  <<"i","n","v","a","l","i","d","-","h","a","s","h">>

\* hash arguments given to debugTransaction / debugParallelExecution
TxHashArgs ==
  { HashLower, HashUpper, HashBigX, HashShort, TextInvalidHash,
    <<"0","x","1","2","3">>, <<>>,
    HashLower \o <<"f">>, HashLower \o <<"\n">>, <<" ">> \o HashLower,
    <<"0","x">> \o Run(HashDigits - 1, "a") \o <<"g">> }

\* issue texts given to debugGeneralIssue
GeneralIssueArgs ==
  { TextFailedWithRevert, TextWhatIsTheStatus, HashLower,
    <<"t","x"," ">> \o HashUpper \o <<" ">> \o HashLower }

Commands ==
  [ name : { "debugTransaction", "debugParallelExecution" },
    arg : TxHashArgs, userContext : UserContexts ]
    \cup [ name : { "debugGeneralIssue" },
           arg : GeneralIssueArgs, userContext : UserContexts ]

InitDebug ==
  /\ command \in Commands
  /\ providerCalls = <<>>
  /\ thrown = "none"
  /\ issue = <<>>
  /\ userContext = AbsentText
  /\ task = NoTask
  /\ model = NoModel
  /\ estimate = NoEstimate
  /\ estimate64 = NoEstimate64
  /\ pc = "command"
  /\ CallsIdle
  /\ ReportIdle
  /\ CliIdle

\* SeiDebugCommands.debugTransaction up to the call of agent.debug
DebugTransaction ==
  /\ pc = "command"
  /\ command.name = "debugTransaction"
  /\ IF ~isValidTxHash(command.arg)
       THEN /\ thrown' = InvalidTxHashMessage
            /\ pc' = "rejected"
            /\ UNCHANGED <<issue, userContext>>
       ELSE /\ issue' = debugTransactionIssue(command.arg, command.userContext)
            /\ userContext' = command.userContext
            /\ pc' = "start"
            /\ UNCHANGED thrown
  /\ UNCHANGED <<task, model, estimate, estimate64, varsCalls, varsCli, varsReport,
                 command, providerCalls>>

\* SeiDebugCommands.debugParallelExecution up to the first provider call of
\* agent.debugParallelExecution
DebugParallelExecution ==
  /\ pc = "command"
  /\ command.name = "debugParallelExecution"
  /\ IF ~isValidTxHash(command.arg)
       THEN /\ thrown' = InvalidTxHashMessage
            /\ pc' = "rejected"
            /\ UNCHANGED task
       ELSE /\ task' = parallelTask(command.arg, command.userContext)
            /\ pc' = "parallel_search"
            /\ UNCHANGED thrown
  /\ UNCHANGED <<issue, userContext, model, estimate, estimate64, varsCalls, varsCli,
                 varsReport, command, providerCalls>>

\* SeiDebugCommands.debugGeneralIssue up to the call of agent.debug
DebugGeneralIssue ==
  /\ pc = "command"
  /\ command.name = "debugGeneralIssue"
  /\ issue' = command.arg
  /\ userContext' = command.userContext
  /\ pc' = "start"
  /\ UNCHANGED <<task, model, estimate, estimate64, varsCalls, varsCli, varsReport,
                 varsFlow>>

\* the record of one provider call
ProviderCall(op, mdl, outcome) ==
  [op |-> op, model |-> mdl, outcome |-> outcome, segments |-> Absent]

\* the record of a provider call that returned raw: the number of content
\* segments of the response is kept
ProviderReturn(op, mdl, raw) ==
  [op |-> op, model |-> mdl, outcome |-> "ok", segments |-> Len(raw.content)]

\* a failed provider call absorbed: the session goes on to the report
ProviderFails_Absorbed(op) ==
  \E e \in ProviderErrors :
    /\ providerCalls' = Append(providerCalls,
                               ProviderCall(op, selectModel(task), e))
    /\ pc' = "report"
    /\ UNCHANGED <<issue, userContext, task, model, estimate, estimate64,
                   varsCalls, varsCli, varsReport, command, thrown>>

\* a provider call fails: the client and the agent log and rethrow
ProviderFails(op) ==
  \E e \in ProviderErrors :
    /\ providerCalls' = Append(providerCalls,
                               ProviderCall(op, selectModel(task), e))
    /\ thrown' = e
    /\ pc' = "failed"
    /\ UNCHANGED <<issue, userContext, task, model, estimate, estimate64,
                   varsCalls, varsCli, varsReport, command>>

\* const initialAnalysis = await this.anthropicClient.debugInteractive(...)
DebugInteractive ==
  /\ pc = "estimated"
  /\ command # NoCommand
  /\ \/ \E raw \in RawResponses(selectModel(task)) :
          /\ providerCalls' = Append(providerCalls,
               ProviderReturn("debugInteractive", selectModel(task), raw))
          /\ searchResults' = formatMessage(raw)
          /\ pc' = IF TxHashTest(issue) THEN "tx_search" ELSE "report"
          /\ UNCHANGED <<issue, userContext, task, model, estimate,
                         estimate64, varsCalls, varsCli, report, analysis, debugReport,
                         command, thrown>>
     \/ ProviderFails("debugInteractive")

\* analyzeTransaction going on to the code execution whatever the search
\* returned
AnalyzeTransactionSearch_AlwaysCode ==
  /\ pc = "tx_search"
  /\ \/ \E raw \in RawResponses(selectModel(task)) :
          /\ providerCalls' = Append(providerCalls,
               ProviderReturn("searchSeiDocs", selectModel(task), raw))
          /\ pc' = "tx_code"
          /\ UNCHANGED <<issue, userContext, task, model, estimate,
                         estimate64, varsCalls, varsCli, varsReport,
                         command, thrown>>
     \/ ProviderFails("searchSeiDocs")

\* analyzeTransaction: searchSeiDocs; its result is the transaction
\* analysis when it has no content
AnalyzeTransactionSearch ==
  /\ pc = "tx_search"
  /\ \/ \E raw \in RawResponses(selectModel(task)) :
          /\ providerCalls' = Append(providerCalls,
               ProviderReturn("searchSeiDocs", selectModel(task), raw))
          /\ IF Len(raw.content) > 0
               THEN pc' = "tx_code" /\ UNCHANGED analysis
               ELSE pc' = "report" /\ analysis' = formatMessage(raw)
          /\ UNCHANGED <<issue, userContext, task, model, estimate,
                         estimate64, varsCalls, varsCli, report, searchResults,
                         debugReport, command, thrown>>
     \/ ProviderFails("searchSeiDocs")

\* analyzeTransaction: analyzeWithCodeExecution on the search content
AnalyzeTransactionCode ==
  /\ pc = "tx_code"
  /\ \/ \E raw \in RawResponses(selectModel(task)) :
          /\ providerCalls' = Append(providerCalls,
               ProviderReturn("analyzeWithCodeExecution", selectModel(task),
                            raw))
          /\ analysis' = formatMessage(raw)
          /\ pc' = "report"
          /\ UNCHANGED <<issue, userContext, task, model, estimate,
                         estimate64, varsCalls, varsCli, report, searchResults,
                         debugReport, command, thrown>>
     \/ ProviderFails("analyzeWithCodeExecution")

\* debugParallelExecution: searchSeiDocs
ParallelSearch ==
  /\ pc = "parallel_search"
  /\ \/ \E raw \in RawResponses(selectModel(task)) :
          /\ providerCalls' = Append(providerCalls,
               ProviderReturn("searchSeiDocs", selectModel(task), raw))
          /\ searchResults' = formatMessage(raw)
          /\ pc' = IF mentionsConflict(raw.content) THEN "parallel_code"
                                                    ELSE "report"
          /\ UNCHANGED <<issue, userContext, task, model, estimate,
                         estimate64, varsCalls, varsCli, report, analysis, debugReport,
                         command, thrown>>
     \/ ProviderFails("searchSeiDocs")

\* debugParallelExecution: analyzeWithCodeExecution
ParallelCode ==
  /\ pc = "parallel_code"
  /\ \/ \E raw \in RawResponses(selectModel(task)) :
          /\ providerCalls' = Append(providerCalls,
               ProviderReturn("analyzeWithCodeExecution", selectModel(task),
                            raw))
          /\ analysis' = formatMessage(raw)
          /\ pc' = "report"
          /\ UNCHANGED <<issue, userContext, task, model, estimate,
                         estimate64, varsCalls, varsCli, report, searchResults,
                         debugReport, command, thrown>>
     \/ ProviderFails("analyzeWithCodeExecution")

\* generateReport, then return this.formatDebugReport(...)
GenerateReport ==
  /\ pc = "report"
  /\ LET mdl == selectModel(reportTask(issue))
     IN  \/ \E raw \in RawResponses(mdl) :
              /\ providerCalls' = Append(providerCalls,
                   ProviderReturn("generateReport", mdl, raw))
              /\ report' = formatMessage(raw)
              /\ debugReport' = formatDebugReport(formatMessage(raw),
                                                  searchResults, analysis)
              /\ pc' = "done"
              /\ UNCHANGED <<issue, userContext, task, model, estimate,
                             estimate64, varsCalls, varsCli, searchResults, analysis,
                             command, thrown>>
         \/ \E e \in ProviderErrors :
              /\ providerCalls' = Append(providerCalls,
                   ProviderCall("generateReport", mdl, e))
              /\ thrown' = e
              /\ pc' = "failed"
              /\ UNCHANGED <<issue, userContext, task, model, estimate,
                             estimate64, varsCalls, varsCli, varsReport, command>>

NextDebug ==
  \/ DebugTransaction
  \/ DebugParallelExecution
  \/ DebugGeneralIssue
  \/ ClassifyIssue
  \/ logCostEstimate
  \/ DebugInteractive
  \/ AnalyzeTransactionSearch
  \/ AnalyzeTransactionCode
  \/ ParallelSearch
  \/ ParallelCode
  \/ GenerateReport

SpecDebug == InitDebug /\ [][NextDebug]_vars

----------------------------------------------------------------------------
(* The CLI helpers validateTxHash and extractTxHash (utils/cli-helpers.ts) *)
(* applied to one text.                                                    *)

\* the result null
NullText == <<"null">>

\* validateTxHash without the anchors
validateTxHash_Unanchored(hash) == TxHashTest(hash)

\* /^0x[a-fA-F0-9]{64}$/.test(hash)
validateTxHash(hash) ==
  Len(hash) = 2 + HashDigits /\ TxHashMatchesAt(hash, 1)

\* extractTxHash returning the last hash of the text
extractTxHash_Last(text) ==
  LET is == { i \in 1..Len(text) : TxHashMatchesAt(text, i) }
  IN  IF is = {} THEN NullText
      ELSE LET i == CHOOSE x \in is : \A y \in is : y <= x
           IN  SubSeq(text, i, i + 1 + HashDigits)

\* const match = text.match(/0x[a-fA-F0-9]{64}/); match ? match[0] : null
extractTxHash(text) ==
  LET is == { i \in 1..Len(text) : TxHashMatchesAt(text, i) }
  IN  IF is = {} THEN NullText
      ELSE LET i == CHOOSE x \in is : \A y \in is : x <= y
           IN  SubSeq(text, i, i + 1 + HashDigits)

\* "Debug general issue"
TextDebugGeneralIssue ==
  <<"D","e","b","u","g"," ","g","e","n","e","r","a","l"," ","i","s","s","u",
    "e">>

\* the texts the helpers are applied to
HelperTexts ==
  IssueTexts \cup TxHashArgs \cup GeneralIssueArgs
    \cup { TextDebugGeneralIssue,
           Run(HashDigits, "a"),
           <<"0","x">> \o HashLower,
           HashLower \o HashUpper,
           DebugTransactionPrefix \o HashUpper \o <<" ">> \o KwFailed,
           HashShort \o <<" ">> \o HashUpper \o <<" ">> \o HashLower }

InitHelpers ==
  /\ helperText \in HelperTexts
  /\ helperValid = "none"
  /\ helperHash = AbsentText
  /\ input = AbsentText
  /\ ipc = "idle"
  /\ prompts = 0
  /\ ClassifyIdle
  /\ CallsIdle
  /\ ReportIdle
  /\ FlowIdle

\* cli.validateTxHash(helperText); the boolean is held as "true" / "false"
ValidateTxHash ==
  /\ helperValid = "none"
  /\ helperValid' = IF validateTxHash(helperText) THEN "true" ELSE "false"
  /\ UNCHANGED <<varsClassify, varsCalls, varsReport, varsFlow, helperText,
                 helperHash, input, ipc, prompts>>

\* cli.extractTxHash(helperText)
ExtractTxHash ==
  /\ helperHash = AbsentText
  /\ helperHash' = extractTxHash(helperText)
  /\ UNCHANGED <<varsClassify, varsCalls, varsReport, varsFlow, helperText,
                 helperValid, input, ipc, prompts>>

NextHelpers == ValidateTxHash \/ ExtractTxHash

SpecHelpers == InitHelpers /\ [][NextHelpers]_vars

----------------------------------------------------------------------------
(* Interactive mode (src/index.ts): the prompt loop reads a line, answers  *)
(* the built-in inputs itself and hands every other line to a handler,     *)
(* which runs one command of SeiDebugCommands and catches what it throws.  *)

\* String.prototype.trim
trim(s) ==
  LET keep == { i \in 1..Len(s) : s[i] \notin WhitespaceChars }
  IN  IF keep = {} THEN <<>>
      ELSE SubSeq(s, CHOOSE i \in keep : \A j \in keep : i <= j,
                     CHOOSE i \in keep : \A j \in keep : j <= i)

RECURSIVE split(_)
\* input.split(" ")
split(s) ==
  LET n == RunLenNot(s, 1, {" "})
  IN  IF n = Len(s) THEN <<s>>
      ELSE <<SubSeq(s, 1, n)>> \o split(SubSeq(s, n + 2, Len(s)))

\* CLIHelpers.parseCommand
parseCommand(args) ==
  IF Len(args) = 0
    THEN [command |-> <<"i","n","t","e","r","a","c","t","i","v","e">>, data |-> <<>>]
  ELSE [command |-> args[1], data |-> JoinTexts(Tail(args))]

InputExit == <<"e","x","i","t">>
InputQuit == <<"q","u","i","t">>

\* the inputs the loop answers itself
BuiltInInputs == { <<"h","e","l","p">>, <<"i","n","f","o">>, <<"c","o","s","t">> }

\* the hash handleTransaction and handleParallelExecution pass on: the
\* argument when it is valid, else the hash extracted from it, else null
resolveTxHash(txHash) ==
  IF validateTxHash(txHash) THEN txHash ELSE extractTxHash(txHash)

\* the command of SeiDebugCommands the switch runs for a line that is not
\* built in; NoCommand when the handler returns on an invalid hash
commandOf(line) ==
  LET parsed == parseCommand(split(line))
      data   == parsed.data
      run(name, arg) == [name |-> name, arg |-> arg, userContext |-> AbsentText]
      withHash(name) == IF resolveTxHash(data) = NullText THEN NoCommand
                        ELSE run(name, resolveTxHash(data))
  IN  CASE parsed.command = <<"d","e","b","u","g">> -> run("debugGeneralIssue", data)
        [] parsed.command = <<"t","x">> -> withHash("debugTransaction")
        [] parsed.command = <<"p","a","r","a","l","l","e","l">> -> withHash("debugParallelExecution")
        [] parsed.command = <<"g","a","s">> -> run("debugGasIssues", data)
        [] parsed.command = <<"c","o","n","t","r","a","c","t">> -> run("debugContractDeployment", data)
        [] parsed.command = <<"i","n","t","e","r","o","p">> -> run("debugEvmCosmwasmInterop", data)
        [] parsed.command = <<"t","i","m","i","n","g">> -> run("debugBlockTiming", data)
        [] parsed.command = <<"e","x","p","l","a","i","n">> -> run("explainSeiFeatures", data)
        [] parsed.command = <<"p","e","r","f","o","r","m","a","n","c","e">> -> run("analyzePerformance", data)
        [] OTHER -> run("debugGeneralIssue", line)

\* the issue text a command of SeiDebugCommands hands to agent.debug
commandIssue(name, arg) ==
  CASE name = "debugGasIssues" ->
         <<"A","n","a","l","y","z","e"," ","g","a","s"," ","u","s","a","g","e",
      " ","f","o","r"," ","t","r","a","n","s","a","c","t","i","o","n",
      " ">> \o arg
    [] name = "debugContractDeployment" ->
         <<"D","e","b","u","g"," ","c","o","n","t","r","a","c","t"," ","d","e",
      "p","l","o","y","m","e","n","t",":"," ">> \o arg
    [] name = "debugEvmCosmwasmInterop" ->
         <<"D","e","b","u","g"," ","E","V","M","-","C","o","s","m","w","a","s",
      "m"," ","i","n","t","e","r","o","p","e","r","a","b","i","l","i",
      "t","y"," ","i","s","s","u","e",":"," ">> \o arg
    [] name = "debugBlockTiming" ->
         <<"D","e","b","u","g"," ","b","l","o","c","k"," ","t","i","m","i","n",
      "g"," ","i","s","s","u","e"," ","(","4","0","0","m","s"," ","b",
      "l","o","c","k","s",")",":"," ">> \o arg
    [] name = "explainSeiFeatures" ->
         IF arg # <<>>
           THEN <<"E","x","p","l","a","i","n"," ","S","e","i"," ","E","V","M"," ","f",
      "e","a","t","u","r","e",":"," ">> \o arg
           ELSE <<"E","x","p","l","a","i","n"," ","S","e","i"," ","E","V","M"," ","k",
      "e","y"," ","f","e","a","t","u","r","e","s",":"," ","p","a","r",
      "a","l","l","e","l"," ","e","x","e","c","u","t","i","o","n",",",
      " ","4","0","0","m","s"," ","b","l","o","c","k","s",","," ","E",
      "V","M","-","C","o","s","m","w","a","s","m"," ","i","n","t","e",
      "r","o","p">>
    [] name = "analyzePerformance" ->
         <<"A","n","a","l","y","z","e"," ","S","e","i"," ","E","V","M"," ","p",
      "e","r","f","o","r","m","a","n","c","e",":"," ">> \o arg \o
         <<"."," ","F","o","c","u","s"," ","o","n"," ","p","a","r","a","l","l",
      "e","l"," ","e","x","e","c","u","t","i","o","n"," ","e","f","f",
      "i","c","i","e","n","c","y"," ","a","n","d"," ","b","l","o","c",
      "k"," ","t","i","m","i","n","g",".">>

\* the descriptor analyzeGasPatterns builds
gasTask(logs) ==
  [ type                  |-> "gas",
    complexity            |-> "medium",
    data                  |-> logs,
    userContext           |-> AbsentText,
    requiresDeepAnalysis  |-> FALSE,
    requiresCodeExecution |-> TRUE,
    isSimpleQuery         |-> FALSE,
    isStatusCheck         |-> FALSE,
    estimatedSearches     |-> Absent,
    estimatedTokens       |-> Absent ]

\* at most MaxPrompts lines are read in one run of the loop
MaxPrompts == 2

\* the lines typed at the prompt, as stdin delivers them
InputLines ==
  { <<"e","x","i","t","\n">>,
    <<"q","u","i","t">>,
    <<" ","e","x","i","t"," ","\n">>,
    <<"E","X","I","T","\n">>,
    <<"e","x","i","t"," ","n","o","w","\n">>,
    <<"h","e","l","p","\n">>,
    <<"i","n","f","o","\n">>,
    <<"c","o","s","t","\n">>,
    <<"\n">>,
    <<" "," ","\t","\n">>,
    <<>>,
    <<"d","e","b","u","g"," ","t","r","a","n","s","a","c","t","i","o","n",
      " ","f","a","i","l","e","d"," ","w","i","t","h"," ","r","e","v",
      "e","r","t","\n">>,
    <<"d","e","b","u","g","\n">>,
    <<"t","x"," ">> \o HashLower \o <<"\n">>,
    <<"t","x"," ","0","x","1","2","3","\n">>,
    <<"t","x"," ","s","e","e"," ">> \o HashUpper \o <<" ","p","l","e","a","s","e","\n">>,
    <<"p","a","r","a","l","l","e","l"," ">> \o HashLower,
    <<"p","a","r","a","l","l","e","l"," ","i","n","v","a","l","i","d","-",
      "h","a","s","h","\n">>,
    <<"g","a","s"," ">> \o HashLower,
    <<"g","a","s"," ","h","i","g","h"," ","g","a","s"," ","u","s","a","g",
      "e"," ","l","o","g","s","\n">>,
    <<"c","o","n","t","r","a","c","t"," ","d","e","p","l","o","y"," ","r",
      "e","v","e","r","t","e","d","\n">>,
    <<"i","n","t","e","r","o","p"," ","p","o","i","n","t","e","r"," ","e",
      "r","r","o","r","\n">>,
    <<"t","i","m","i","n","g"," ","w","h","a","t"," ","i","s"," ","t","h",
      "e"," ","b","l","o","c","k"," ","t","i","m","e","\n">>,
    <<"e","x","p","l","a","i","n","\n">>,
    <<"e","x","p","l","a","i","n"," ","p","a","r","a","l","l","e","l"," ",
      "e","x","e","c","u","t","i","o","n","\n">>,
    <<"p","e","r","f","o","r","m","a","n","c","e"," ","s","l","o","w"," ",
      "b","l","o","c","k","s","\n">>,
    <<"w","h","a","t"," ","i","s"," ","t","h","e"," ","s","t","a","t","u",
      "s","\n">> }

InitInteractive ==
  /\ ClassifyIdle
  /\ CallsIdle
  /\ ReportIdle
  /\ FlowIdle
  /\ helperText = <<>>
  /\ helperValid = "none"
  /\ helperHash = AbsentText
  /\ input = AbsentText
  /\ ipc = "prompt"
  /\ prompts = 1

\* const input = await cli.promptForInput("\nsei-debug>")
PromptForInput ==
  /\ ipc = "prompt"
  /\ prompts <= MaxPrompts
  /\ \E line \in InputLines : input' = trim(line)
  /\ ipc' = "read"
  /\ UNCHANGED <<varsClassify, varsCalls, varsReport, varsFlow, helperText,
                 helperValid, helperHash, prompts>>

\* input === "exit" || input === "quit": break
LeaveLoop ==
  /\ ipc = "read"
  /\ input \in { InputExit, InputQuit }
  /\ ipc' = "ended"
  /\ UNCHANGED <<varsClassify, varsCalls, varsReport, varsFlow, helperText,
                 helperValid, helperHash, input, prompts>>

\* help, info, cost and the empty input: continue
BuiltInInput ==
  /\ ipc = "read"
  /\ input \notin { InputExit, InputQuit }
  /\ input \in BuiltInInputs \/ trim(input) = <<>>
  /\ ipc' = "prompt"
  /\ prompts' = prompts + 1
  /\ UNCHANGED <<varsClassify, varsCalls, varsReport, varsFlow, helperText,
                 helperValid, helperHash, input>>

\* the switch: the handler of the line starts its command; a handler that
\* finds no hash in its argument logs that and returns
DispatchCommand ==
  /\ ipc = "read"
  /\ input \notin { InputExit, InputQuit }
  /\ input \notin BuiltInInputs
  /\ trim(input) # <<>>
  /\ command' = commandOf(input)
  /\ providerCalls' = <<>>
  /\ thrown' = "none"
  /\ issue' = <<>>
  /\ userContext' = AbsentText
  /\ task' = NoTask
  /\ model' = NoModel
  /\ estimate' = NoEstimate
  /\ estimate64' = NoEstimate64
  /\ report' = NoMessage
  /\ searchResults' = NoMessage
  /\ analysis' = NoMessage
  /\ debugReport' = NoReport
  /\ IF commandOf(input) = NoCommand
       THEN /\ pc' = "idle"
            /\ ipc' = "prompt"
            /\ prompts' = prompts + 1
       ELSE /\ pc' = "command"
            /\ ipc' = "running"
            /\ UNCHANGED prompts
  /\ UNCHANGED <<varsCalls, helperText, helperValid, helperHash, input>>

\* the commands that hand a composed issue to agent.debug
DebugComposedIssue ==
  /\ pc = "command"
  /\ command.name \in { "debugContractDeployment", "debugEvmCosmwasmInterop",
                        "debugBlockTiming", "explainSeiFeatures",
                        "analyzePerformance" }
  /\ issue' = commandIssue(command.name, command.arg)
  /\ userContext' = command.userContext
  /\ pc' = "start"
  /\ UNCHANGED <<task, model, estimate, estimate64, varsCalls, varsCli,
                 varsReport, varsFlow>>

\* SeiDebugCommands.debugGasIssues: agent.debug for a hash, else
\* agent.analyzeGasPatterns
DebugGasIssues ==
  /\ pc = "command"
  /\ command.name = "debugGasIssues"
  /\ IF isValidTxHash(command.arg)
       THEN /\ issue' = commandIssue(command.name, command.arg)
            /\ userContext' = command.userContext
            /\ pc' = "start"
            /\ UNCHANGED task
       ELSE /\ task' = gasTask(command.arg)
            /\ pc' = "gas_code"
            /\ UNCHANGED <<issue, userContext>>
  /\ UNCHANGED <<model, estimate, estimate64, varsCalls, varsCli, varsReport,
                 varsFlow>>

\* analyzeGasPatterns: analyzeWithCodeExecution on the logs
AnalyzeGasPatterns ==
  /\ pc = "gas_code"
  /\ \/ \E raw \in RawResponses(selectModel(task)) :
          /\ providerCalls' = Append(providerCalls,
               ProviderReturn("analyzeWithCodeExecution", selectModel(task),
                              raw))
          /\ analysis' = formatMessage(raw)
          /\ pc' = "report"
          /\ UNCHANGED <<issue, userContext, task, model, estimate,
                         estimate64, varsCalls, varsCli, report, searchResults,
                         debugReport, command, thrown>>
     \/ ProviderFails("analyzeWithCodeExecution")

\* a handler that ends the loop when its command failed
HandlerReturns_ExitOnFailure ==
  /\ ipc = "running"
  /\ pc \in { "done", "failed", "rejected" }
  /\ IF pc = "done"
       THEN ipc' = "prompt" /\ prompts' = prompts + 1
       ELSE ipc' = "ended" /\ UNCHANGED prompts
  /\ providerCalls' = <<>>
  /\ report' = NoMessage
  /\ searchResults' = NoMessage
  /\ analysis' = NoMessage
  /\ debugReport' = NoReport
  /\ UNCHANGED <<varsClassify, varsCalls, command, thrown, helperText,
                 helperValid, helperHash, input>>

\* the handler is done: the report has been displayed, or the error was
\* caught and displayed; the loop goes on to the next prompt
HandlerReturns ==
  /\ ipc = "running"
  /\ pc \in { "done", "failed", "rejected" }
  /\ ipc' = "prompt"
  /\ prompts' = prompts + 1
  /\ providerCalls' = <<>>
  /\ report' = NoMessage
  /\ searchResults' = NoMessage
  /\ analysis' = NoMessage
  /\ debugReport' = NoReport
  /\ UNCHANGED <<varsClassify, varsCalls, command, thrown, helperText,
                 helperValid, helperHash, input>>

\* what the loop does with a line once it is read
HandleInput ==
  \/ LeaveLoop
  \/ BuiltInInput
  \/ DispatchCommand
  \/ DebugTransaction
  \/ DebugParallelExecution
  \/ DebugGeneralIssue
  \/ DebugComposedIssue
  \/ DebugGasIssues
  \/ ClassifyIssue
  \/ logCostEstimate
  \/ DebugInteractive
  \/ AnalyzeTransactionSearch
  \/ AnalyzeTransactionCode
  \/ ParallelSearch
  \/ ParallelCode
  \/ AnalyzeGasPatterns
  \/ GenerateReport
  \/ HandlerReturns

NextInteractive == PromptForInput \/ HandleInput

SpecInteractive == InitInteractive /\ [][NextInteractive]_vars

----------------------------------------------------------------------------
(* Properties of ModelSelector on hand-built descriptors (SpecSelector).   *)

\* C1: for every task descriptor, selectModel returns Opus 4 (High tier)
\* whenever requiresDeepAnalysis or requiresCodeExecution or complexity =
\* high holds, whatever isSimpleQuery, isStatusCheck and complexity = low
\* say, and Sonnet 4 (Standard tier) in every other case.
C1_SelectModelTable ==
  model # NoModel =>
    /\ (\/ task.requiresDeepAnalysis
        \/ task.requiresCodeExecution
        \/ task.complexity = "high") => model = OPUS_4
    /\ ~(\/ task.requiresDeepAnalysis
         \/ task.requiresCodeExecution
         \/ task.complexity = "high") => model = SONNET_4

\* a high-complexity simple status query has been given the High tier
C1_Witness ==
  /\ model = OPUS_4
  /\ task.complexity = "high"
  /\ task.isSimpleQuery
  /\ task.isStatusCheck
  /\ ~task.requiresDeepAnalysis
  /\ ~task.requiresCodeExecution

\* C2: for every task descriptor with non-negative or absent estimates,
\* the estimate's total is exactly searchCost + tokenCost and all three
\* fields are non-negative.
C2_TotalIsSum ==
  estimate # NoEstimate =>
    /\ estimate.total = estimate.searchCost + estimate.tokenCost
    /\ estimate.searchCost >= 0
    /\ estimate.tokenCost >= 0
    /\ estimate.total >= 0

\* an estimate with a positive search cost and the default token count
C2_Witness ==
  /\ estimate # NoEstimate
  /\ task.estimatedSearches = MaxSearches
  /\ task.estimatedTokens = Absent
  /\ estimate.searchCost > 0
  /\ estimate.tokenCost > 0

----------------------------------------------------------------------------
(* Properties of classifyIssue on issue texts (Spec).                      *)
(* "contains a keyword" ignores letter case: the keyword is looked for in  *)
(* the lower-cased text.                                                   *)

\* the task has been produced by classifyIssue
Classified == pc \in {"classified", "estimated"}

\* s contains "0x" followed by 64 hex digits
ContainsTxHash(s) ==
  \E i \in 1..(Len(s) - HashDigits - 1) :
    /\ s[i] = "0"
    /\ s[i + 1] = "x"
    /\ { s[k] : k \in (i + 2)..(i + 1 + HashDigits) } \subseteq HexChars

\* C3: classifying a text that contains a 0x-prefixed 64-hex-digit hash
\* yields type transaction and 3 estimated searches, whatever other
\* keywords the text contains.
C3_HashIsTransaction ==
  (Classified /\ ContainsTxHash(issue)) =>
    /\ task.type = "transaction"
    /\ task.estimatedSearches = 3

\* a text with a hash and "gas" has been classified
C3_Witness ==
  LET lower == toLowerCase(issue)
  IN  /\ Classified
      /\ ContainsTxHash(issue)
      /\ includes(lower, KwGas)
      /\ task.type = "transaction"
      /\ task.estimatedSearches = 3

\* C4: without a hash the type is decided by first match: "gas" wins over
\* "parallel", "state" and "contract"; "parallel" or "state" win over
\* "contract"; then "contract"; otherwise general.  Exactly one of the five
\* types holds.
C4_KeywordPrecedence ==
  (Classified /\ ~ContainsTxHash(issue)) =>
    LET lower    == toLowerCase(issue)
        gas      == includes(lower, KwGas)
        parallel == includes(lower, KwParallel) \/ includes(lower, KwState)
        contract == includes(lower, KwContract)
    IN  /\ gas => task.type = "gas"
        /\ (~gas /\ parallel) => task.type = "parallel"
        /\ (~gas /\ ~parallel /\ contract) => task.type = "contract"
        /\ (~gas /\ ~parallel /\ ~contract) => task.type = "general"
        /\ Cardinality({ k \in TaskTypes : task.type = k }) = 1

\* a text with "parallel" followed by "gas" has been classified as gas
C4_Witness ==
  LET lower == toLowerCase(issue)
  IN  /\ Classified
      /\ ~ContainsTxHash(issue)
      /\ issue = KwParallel \o KwGas
      /\ task.type = "gas"

\* C5: complexity is high whenever the text contains "revert", "failed" or
\* "error", even next to "how", "what" or "status"; low only when it
\* contains one of "how", "what", "status" and no high keyword; otherwise
\* medium.
C5_Complexity ==
  Classified =>
    LET lower == toLowerCase(issue)
        high  == \/ includes(lower, KwRevert)
                 \/ includes(lower, KwFailed)
                 \/ includes(lower, KwError)
        low   == \/ includes(lower, KwHow)
                 \/ includes(lower, KwWhat)
                 \/ includes(lower, KwStatus)
    IN  /\ high => task.complexity = "high"
        /\ task.complexity = "low" <=> (low /\ ~high)
        /\ (~high /\ ~low) => task.complexity = "medium"

\* a text with "error" and "status" has been classified as high
C5_Witness ==
  LET lower == toLowerCase(issue)
  IN  /\ Classified
      /\ includes(lower, KwError)
      /\ includes(lower, KwStatus)
      /\ task.complexity = "high"

\* C6: in every classified descriptor requiresDeepAnalysis is true exactly
\* when complexity = high or type = parallel.
C6_DeepAnalysis ==
  Classified =>
    (task.requiresDeepAnalysis <=>
       (task.complexity = "high" \/ task.type = "parallel"))

\* a parallel task of low complexity requires deep analysis
C6_Witness ==
  /\ Classified
  /\ task.type = "parallel"
  /\ task.complexity = "low"
  /\ task.requiresDeepAnalysis

\* C7: in every classified descriptor requiresCodeExecution is true exactly
\* when the text contains a hash, or type = gas, or the text contains
\* "analyze"; "transaction failed with revert" does not require code
\* execution and still selects Opus 4.
C7_CodeExecution ==
  /\ Classified =>
       (task.requiresCodeExecution <=>
          \/ task.type = "gas"
          \/ ContainsTxHash(issue)
          \/ includes(toLowerCase(issue), KwAnalyze))
  /\ (pc = "estimated" /\ issue = TextFailedWithRevert) =>
       /\ ~task.requiresCodeExecution
       /\ task.complexity = "high"
       /\ model = OPUS_4

\* a contract task mentioning "analyze" requires code execution
C7_Witness ==
  /\ pc = "estimated"
  /\ task.type = "contract"
  /\ ~ContainsTxHash(issue)
  /\ includes(toLowerCase(issue), KwAnalyze)
  /\ task.requiresCodeExecution
  /\ model = OPUS_4

\* C8: isSimpleQuery holds exactly when complexity = low and no hash is
\* present; isStatusCheck exactly when the text contains "status" or
\* "check"; "what is the status" is low, a status check and a simple query,
\* selects Sonnet 4 and its token cost is at the Sonnet rate.
C8_SimpleAndStatus ==
  /\ Classified =>
       LET lower == toLowerCase(issue)
       IN  /\ task.isSimpleQuery <=>
                (task.complexity = "low" /\ ~ContainsTxHash(issue))
           /\ task.isStatusCheck <=>
                (includes(lower, KwStatus) \/ includes(lower, KwCheck))
  /\ (pc = "estimated" /\ issue = TextWhatIsTheStatus) =>
       /\ task.complexity = "low"
       /\ task.isStatusCheck
       /\ task.isSimpleQuery
       /\ model = SONNET_4
       /\ estimate.tokenCost * 1000 = task.estimatedTokens * SonnetCostPerKToken

\* a low-complexity text with a hash is not a simple query
C8_Witness ==
  /\ pc = "estimated"
  /\ ContainsTxHash(issue)
  /\ includes(toLowerCase(issue), KwWhat)
  /\ task.complexity = "low"
  /\ ~task.isSimpleQuery

\* C9: every classified descriptor carries estimatedSearches = 3 with a
\* hash and 2 without, and estimatedTokens = 3000 when complexity = high
\* and 1500 otherwise; the estimator never falls back to its defaults of
\* 0 searches and 1000 tokens for it.
C9_Estimates ==
  /\ Classified =>
       /\ task.estimatedSearches = IF ContainsTxHash(issue) THEN 3 ELSE 2
       /\ task.estimatedTokens = IF task.complexity = "high" THEN 3000 ELSE 1500
       /\ OrDefault(task.estimatedSearches, 0) = task.estimatedSearches
       /\ OrDefault(task.estimatedTokens, DefaultTokens) = task.estimatedTokens
  /\ pc = "estimated" =>
       /\ estimate.searchCost = task.estimatedSearches * SearchCostMicros
       /\ estimate.tokenCost * 1000 = task.estimatedTokens *
            (IF model = OPUS_4 THEN OpusCostPerKToken ELSE SonnetCostPerKToken)

\* a high-complexity text without a hash has been costed
C9_Witness ==
  /\ pc = "estimated"
  /\ ~ContainsTxHash(issue)
  /\ task.complexity = "high"
  /\ task.estimatedSearches = 2
  /\ task.estimatedTokens = 3000
  /\ estimate.searchCost = 2 * SearchCostMicros

\* s contains none of the classifier's keywords, letter case ignored
NoKeyword(s) ==
  LET lower == toLowerCase(s)
  IN  \A kw \in { KwGas, KwParallel, KwState, KwContract, KwRevert, KwFailed,
                  KwError, KwHow, KwWhat, KwStatus, KwCheck, KwAnalyze } :
        ~includes(lower, kw)

\* t is a complete task descriptor
IsDescriptor(t) ==
  /\ t.type \in TaskTypes
  /\ t.complexity \in Complexities
  /\ t.requiresDeepAnalysis \in BOOLEAN
  /\ t.requiresCodeExecution \in BOOLEAN
  /\ t.isSimpleQuery \in BOOLEAN
  /\ t.isStatusCheck \in BOOLEAN
  /\ t.estimatedSearches \in Nat
  /\ t.estimatedTokens \in Nat

\* C10: classifyIssue is total: every issue text and optional user context
\* gets a descriptor; a text with no keyword and no hash is general and
\* medium; the descriptor's data and userContext are the inputs unchanged.
C10_ClassifyTotal ==
  /\ pc = "start" => IsDescriptor(classifyIssue(issue, userContext))
  /\ Classified =>
       /\ IsDescriptor(task)
       /\ task.data = issue
       /\ task.userContext = userContext
       /\ (NoKeyword(issue) /\ ~ContainsTxHash(issue)) =>
            (task.type = "general" /\ task.complexity = "medium")

\* a text in upper case with no keyword and no hash, given with a user
\* context, has been classified as general and medium
C10_Witness ==
  /\ Classified
  /\ NoKeyword(issue)
  /\ ~ContainsTxHash(issue)
  /\ issue # toLowerCase(issue)
  /\ userContext # AbsentText
  /\ task.type = "general"
  /\ task.complexity = "medium"
  /\ task.data = issue

----------------------------------------------------------------------------
(* Properties of the cost figures (SpecCost).                              *)

RECURSIVE BigPred(_)
\* a - 1 for a > 0
BigPred(a) ==
  IF a[1] > 0 THEN BigTrim([a EXCEPT ![1] = @ - 1])
  ELSE <<LimbBase - 1>> \o BigPred(Tail(a))

\* the largest double below x, for x > 0 that is not a power of two
F64Pred(x) ==
  LET k == SignificandBits - BigBitLen(x.m)
  IN  F64Canon(BigPred(BigShl(x.m, k)), x.e - k)

\* the double denoted by the decimal literal n / d, d a power of ten
Dec(n, d) == F64Div(n, d)

\* what the claim calls the High tier's condition
IsHighTier(t) ==
  t.requiresDeepAnalysis \/ t.requiresCodeExecution \/ t.complexity = "high"

\* the exact cost figures of C11, in micro-dollars, for every descriptor
\* whose token estimate is absent or positive
C11_ExactFigures ==
  (estimate # NoEstimate /\ task.estimatedTokens # 0) =>
    LET searches == IF task.estimatedSearches = Absent
                      THEN 0 ELSE task.estimatedSearches
        tokens   == IF task.estimatedTokens = Absent
                      THEN DefaultTokens ELSE task.estimatedTokens
        rate     == IF IsHighTier(task) THEN 75000 ELSE 15000
    IN  /\ estimate.searchCost = searches * 10000
        /\ estimate.tokenCost * 1000 = tokens * rate
        /\ searches = 0 =>
             /\ estimate.searchCost = 0
             /\ estimate.total = estimate.tokenCost
             /\ estimate64.searchCost = F64Zero
             /\ estimate64.total = estimate64.tokenCost
        /\ (pc = "estimated" /\ issue = HashLower) =>
             /\ IsHighTier(task)
             /\ estimate.searchCost = 30000
             /\ estimate.tokenCost = 112500
             /\ estimate.total = 142500
        /\ (pc = "estimated" /\ issue = TextFailedWithRevert) =>
             /\ IsHighTier(task)
             /\ estimate.searchCost = 20000
             /\ estimate.tokenCost = 225000
             /\ estimate.total = 245000

\* C11 as stated: searchCost = searches * 0.01 and tokenCost = (tokens /
\* 1000) * rate with rate 0.075 on the High tier and 0.015 otherwise; zero
\* searches give searchCost = 0 and total = tokenCost; the hash-only input
\* costs 0.03 + 0.1125 = 0.1425 and "transaction failed with revert" costs
\* 0.02 + 0.225 = 0.245, as the numbers estimateCost returns.
C11_Original ==
  /\ C11_ExactFigures
  /\ (pc = "estimated" /\ issue = HashLower) =>
       /\ estimate64.searchCost = Dec(3, 100)
       /\ estimate64.tokenCost = Dec(1125, 10000)
       /\ estimate64.total = Dec(1425, 10000)
  /\ (pc = "estimated" /\ issue = TextFailedWithRevert) =>
       /\ estimate64.searchCost = Dec(2, 100)
       /\ estimate64.tokenCost = Dec(225, 1000)
       /\ estimate64.total = Dec(245, 1000)

\* C11 amended: the figures of C11 hold in exact decimal arithmetic; the
\* doubles estimateCost returns are 0.03, 0.11249999999999999 (one unit in
\* the last place below 0.1125) and 0.1425 for the hash-only input, and
\* 0.02, 0.22499999999999998 and 0.24499999999999997 (each one unit in the
\* last place below 0.225 and 0.245) for "transaction failed with revert".
C11_CostFigures ==
  /\ C11_ExactFigures
  /\ (pc = "estimated" /\ issue = HashLower) =>
       /\ estimate64.searchCost = Dec(3, 100)
       /\ estimate64.tokenCost = F64Pred(Dec(1125, 10000))
       /\ estimate64.total = Dec(1425, 10000)
  /\ (pc = "estimated" /\ issue = TextFailedWithRevert) =>
       /\ estimate64.searchCost = Dec(2, 100)
       /\ estimate64.tokenCost = F64Pred(Dec(225, 1000))
       /\ estimate64.total = F64Pred(Dec(245, 1000))

\* "transaction failed with revert" has been costed
C11_Witness ==
  /\ pc = "estimated"
  /\ issue = TextFailedWithRevert
  /\ task.estimatedSearches = 2
  /\ task.estimatedTokens = 3000
  /\ model = OPUS_4
  /\ estimate.total = 245000
  /\ estimate64.total # Dec(245, 1000)

----------------------------------------------------------------------------
(* The estimator's fallback values (SpecSelector).                         *)

\* C12 as stated: estimateCost falls back to 0 searches and 1000 tokens only
\* when the estimate is absent; an estimate given as 0 is costed as 0, so a
\* descriptor with estimatedTokens = 0 has tokenCost = 0.
C12_FallbackOnlyWhenAbsent ==
  estimate # NoEstimate =>
    LET searches == IF task.estimatedSearches = Absent
                      THEN 0 ELSE task.estimatedSearches
        tokens   == IF task.estimatedTokens = Absent
                      THEN DefaultTokens ELSE task.estimatedTokens
        rate     == IF IsHighTier(task) THEN 75000 ELSE 15000
    IN  /\ estimate.searchCost = searches * 10000
        /\ estimate.tokenCost * 1000 = tokens * rate
        /\ task.estimatedTokens = 0 =>
             /\ estimate.tokenCost = 0
             /\ estimate64.tokenCost = F64Zero

----------------------------------------------------------------------------
(* Properties of repeated calls on one selector instance (SpecCalls).      *)

----------------------------------------------------------------------------
(* Properties of report assembly (SpecAssembler).                          *)

\* a report has been assembled
Assembled == debugReport.model # "none"

\* the text of the primary response: its text segments joined by a space
PrimaryText == textContent(report.content)

\* the label "root cause" in any letter case stands at position i of s
LabelAt(s, i) ==
  /\ i + 9 <= Len(s)
  /\ \A k \in 1..10 : toLowerCaseChar(s[i + k - 1]) = KwRootCause[k]

\* the first position after the colons and white space that follow the
\* label at i
AfterLabel(s, i) ==
  CHOOSE p \in (i + 10)..(Len(s) + 1) :
    /\ \A q \in (i + 10)..(p - 1) : s[q] \in WhitespaceChars \cup {":"}
    /\ p <= Len(s) => s[p] \notin WhitespaceChars \cup {":"}

\* the position of the first period of s at or after p, 0 if there is none
NextPeriod(s, p) ==
  LET qs == { q \in p..Len(s) : s[q] = "." }
  IN  IF qs = {} THEN 0 ELSE CHOOSE q \in qs : \A r \in qs : q <= r

\* the labels of s followed by a colon or white space
LabelsWithSeparator(s) ==
  { i \in 1..Len(s) : LabelAt(s, i) /\ AfterLabel(s, i) > i + 10 }

\* C14 as stated: when the primary text contains the label "root cause"
\* (any letter case) followed by a colon or white space, rootCause is the
\* text after the first such label (and its colons and white space) up to
\* and including the next period.
C14_AfterFirstLabel ==
  LET s  == PrimaryText
      ls == LabelsWithSeparator(s)
  IN  (Assembled /\ ls # {}) =>
        LET i == CHOOSE x \in ls : \A y \in ls : x <= y
            p == AfterLabel(s, i)
            q == NextPeriod(s, p)
        IN  q # 0 => debugReport.rootCause = SubSeq(s, p, q)

\* the label at i is followed by colons / white space, then a character
\* other than a period, and a period occurs later
LabelWithSentence(s, i) ==
  /\ i \in LabelsWithSeparator(s)
  /\ AfterLabel(s, i) <= Len(s)
  /\ s[AfterLabel(s, i)] # "."
  /\ NextPeriod(s, AfterLabel(s, i)) # 0

\* the label at i is followed by two or more colons / white-space
\* characters and then at once by a period
LabelWithBarePeriod(s, i) ==
  /\ i \in LabelsWithSeparator(s)
  /\ AfterLabel(s, i) > i + 11
  /\ AfterLabel(s, i) <= Len(s)
  /\ s[AfterLabel(s, i)] = "."

\* C14 amended: rootCause is taken at the first "root cause" label (any
\* letter case) that is followed by one or more colons or white-space
\* characters, then by a character other than a period, with a period
\* later in the text: it is the text from that character up to and
\* including the next period.  A label whose colons / white space are
\* followed at once by a period is passed over when there is one such
\* character, and yields the last of them plus the period when there are
\* more.  "Root cause: nonce collision. Try X." yields "nonce collision.".
C14_RootCause ==
  LET s  == PrimaryText
      ls == { i \in 1..Len(s) :
                LabelWithSentence(s, i) \/ LabelWithBarePeriod(s, i) }
  IN  Assembled =>
        /\ ls # {} =>
             LET i == CHOOSE x \in ls : \A y \in ls : x <= y
                 p == AfterLabel(s, i)
             IN  IF LabelWithSentence(s, i)
                   THEN debugReport.rootCause = SubSeq(s, p, NextPeriod(s, p))
                   ELSE debugReport.rootCause = SubSeq(s, p - 1, p)
        /\ s = TextRootCauseExample =>
             debugReport.rootCause = SubSeq(TextRootCauseExample, 13, 28)

\* the report of "Root cause: nonce collision. Try X."
C14_Witness ==
  /\ Assembled
  /\ report.content = <<TextSegment(TextRootCauseExample)>>
  /\ debugReport.rootCause = PartWords \o <<".">>

\* a list marker starts at position i of s: a bullet, an asterisk, or the
\* first digit of a run of digits that ends in a period
MarkerStartsAt(s, i) ==
  /\ i <= Len(s)
  /\ \/ s[i] = Bullet
     \/ s[i] = "*"
     \/ /\ s[i] \in DigitChars
        /\ i > 1 => s[i - 1] \notin DigitChars
        /\ \E e \in (i + 1)..Len(s) :
             /\ s[e] = "."
             /\ \A d \in i..(e - 1) : s[d] \in DigitChars

\* the first position after the marker that starts at i
AfterMarker(s, i) ==
  IF s[i] \in DigitChars
    THEN 1 + CHOOSE e \in (i + 1)..Len(s) :
               s[e] = "." /\ \A d \in i..(e - 1) : s[d] \in DigitChars
    ELSE i + 1

\* the first position at or after p that holds no white space
SkipWhitespace(s, p) ==
  CHOOSE t \in p..(Len(s) + 1) :
    /\ \A q \in p..(t - 1) : s[q] \in WhitespaceChars
    /\ t <= Len(s) => s[t] \notin WhitespaceChars

RECURSIVE ItemsAsStated(_, _)
\* one entry per marker from position i on that has text before the next
\* period: the text after the marker and its white space, up to and
\* including that period
ItemsAsStated(s, i) ==
  IF i > Len(s) THEN <<>>
  ELSE IF ~MarkerStartsAt(s, i) THEN ItemsAsStated(s, i + 1)
  ELSE LET t == SkipWhitespace(s, AfterMarker(s, i))
           q == NextPeriod(s, t)
       IN  IF q <= t THEN ItemsAsStated(s, AfterMarker(s, i))
           ELSE <<SubSeq(s, t, q)>> \o ItemsAsStated(s, AfterMarker(s, i))

\* C15 as stated: suggestions are the list items of the primary text in
\* order, one entry per occurrence of a list marker (digits followed by a
\* period, a bullet, or an asterisk) followed by text up to the next
\* period, each entry without its marker and the white space after it.
C15_OnePerMarker ==
  Assembled =>
    LET items == ItemsAsStated(PrimaryText, 1)
    IN  items # <<>> => debugReport.suggestions = items

\* the marker at i starts an item: between the marker and the next period
\* there is at least one character, and no line break after the white
\* space that follows the marker (nor right before the period)
ItemAt(s, i) ==
  /\ MarkerStartsAt(s, i)
  /\ LET a == AfterMarker(s, i)
         q == NextPeriod(s, a)
         t == SkipWhitespace(s, a)
     IN  /\ q > a
         /\ \A n \in (IF t < q THEN t ELSE q - 1)..(q - 1) : s[n] # "\n"

RECURSIVE ItemsLeftToRight(_, _)
\* the items from position i on, the search resuming after each item's
\* period
ItemsLeftToRight(s, i) ==
  IF i > Len(s) THEN <<>>
  ELSE IF ~ItemAt(s, i) THEN ItemsLeftToRight(s, i + 1)
  ELSE LET q == NextPeriod(s, AfterMarker(s, i))
           t == SkipWhitespace(s, AfterMarker(s, i))
       IN  <<SubSeq(s, t, q)>> \o ItemsLeftToRight(s, q + 1)

\* C15 amended: suggestions are the items found scanning the primary text
\* from left to right.  An item starts at a list marker (digits followed by
\* a period, a bullet, or an asterisk, anywhere in the text) that is
\* followed, after optional white space, by one or more characters other
\* than a period or a line break and then by a period; the scan resumes
\* after that period, so a marker inside an item starts no item, and a
\* marker whose text meets a line break or the end of the text before a
\* period yields no entry.  Each entry is the item without its marker and
\* the white space after the marker; with no item suggestions is absent.
C15_Suggestions ==
  Assembled =>
    LET items == ItemsLeftToRight(PrimaryText, 1)
    IN  debugReport.suggestions = (IF items = <<>> THEN AbsentTexts ELSE items)

\* the report of a text with a numbered and a bulleted item
C15_Witness ==
  /\ Assembled
  /\ report.content = <<TextSegment(TextUpperLabelList)>>
  /\ Len(debugReport.suggestions) = 2
  /\ debugReport.suggestions[1] = SubSeq(TextUpperLabelList, 34, 52)
  /\ debugReport.suggestions[2] = SubSeq(TextUpperLabelList, 56, 61)

\* the values formatDebugReport may return for any arguments
IsDebugReport(r) ==
  /\ DOMAIN r = { "analysis", "sources", "model", "toolsUsed", "citations",
                  "rootCause", "suggestions" }
  /\ r.model \in { OPUS_4, SONNET_4 }
  /\ r.sources \in Seq(Citations)
  /\ r.citations \in Seq(Citations)
  /\ r.toolsUsed \in Seq({ "web_search", "code_execution" })
  /\ r.rootCause = AbsentText \/ Len(r.rootCause) >= 2
  /\ r.suggestions = AbsentTexts
       \/ (Len(r.suggestions) >= 1 /\
           \A i \in DOMAIN r.suggestions : Len(r.suggestions[i]) >= 1)

\* the primary response has no text segment
NoTextSegment == \A i \in DOMAIN report.content : report.content[i].type # "text"

\* C16: a missed extraction is not an error: for every well-formed primary
\* response formatDebugReport returns a report; its rootCause is absent when
\* the text has no "root cause" label followed by a colon or white space
\* and a sentence, and its suggestions are absent when the text has no list
\* marker followed by text and a period; both are absent for a response
\* with no segments or with no text segment.
C16_MissIsAbsent ==
  LET s == PrimaryText
      r == IF Assembled THEN debugReport
           ELSE formatDebugReport(report, searchResults, analysis)
  IN  /\ IsDebugReport(r)
      /\ r.analysis = report.content
      /\ (\A i \in 1..Len(s) :
            ~LabelWithSentence(s, i) /\ ~LabelWithBarePeriod(s, i))
           => r.rootCause = AbsentText
      /\ (\A i \in 1..Len(s) : ~ItemAt(s, i)) => r.suggestions = AbsentTexts
      /\ ~includes(toLowerCase(s), KwRootCause) => r.rootCause = AbsentText
      /\ (\A i \in 1..Len(s) : ~MarkerStartsAt(s, i))
           => r.suggestions = AbsentTexts
      /\ (report.content = <<>> \/ NoTextSegment) =>
           /\ r.rootCause = AbsentText
           /\ r.suggestions = AbsentTexts

\* reports assembled from a response without text segments
C16_Witness ==
  /\ Assembled
  /\ report.content = <<ToolSegment, ToolSegment>>
  /\ debugReport.analysis = report.content
  /\ debugReport.rootCause = AbsentText
  /\ debugReport.suggestions = AbsentTexts

\* absent extra responses count as responses without citations
CitationsGiven(m) ==
  IF m = NoMessage THEN <<>>
  ELSE IF m.citations = AbsentList THEN <<>> ELSE m.citations

\* C17: the report's citations are the primary response's citations, then
\* the search / initial analysis response's, then the transaction / code
\* analysis response's, each in its own order: nothing is dropped,
\* reordered or deduplicated, the length is the sum of the three lengths,
\* and an absent response contributes nothing.
C17_CitationsConcatenated ==
  Assembled =>
    LET a == CitationsGiven(report)
        b == CitationsGiven(searchResults)
        c == CitationsGiven(analysis)
        out == debugReport.citations
    IN  /\ Len(out) = Len(a) + Len(b) + Len(c)
        /\ \A i \in DOMAIN a : out[i] = a[i]
        /\ \A i \in DOMAIN b : out[Len(a) + i] = b[i]
        /\ \A i \in DOMAIN c : out[Len(a) + Len(b) + i] = c[i]
        /\ debugReport.sources = out

\* three responses citing the same two sources in different orders
C17_Witness ==
  /\ Assembled
  /\ report.citations = <<"https://docs.sei.io", "https://seitrace.com">>
  /\ searchResults.citations = <<"https://seitrace.com", "https://docs.sei.io">>
  /\ analysis.citations = <<"https://docs.sei.io", "https://docs.sei.io">>
  /\ Len(debugReport.citations) = 6
  /\ debugReport.citations[6] = "https://docs.sei.io"

\* the tool names a response reports
ToolNames(m) ==
  IF m = NoMessage THEN {}
  ELSE IF m.server_tool_use = AbsentList THEN {}
  ELSE { m.server_tool_use[i] : i \in DOMAIN m.server_tool_use }

\* C18: toolsUsed is the set union of the tool names of the primary and the
\* extra responses: every name reported by some response occurs exactly
\* once, and no other name occurs.
C18_ToolsUnion ==
  Assembled =>
    LET out == debugReport.toolsUsed
    IN  /\ { out[i] : i \in DOMAIN out }
             = ToolNames(report) \cup ToolNames(searchResults)
                 \cup ToolNames(analysis)
        /\ \A i, j \in DOMAIN out : out[i] = out[j] => i = j

\* the same tool reported twice by one response and again by another
C18_Witness ==
  /\ Assembled
  /\ report.server_tool_use = <<"web_search", "web_search">>
  /\ searchResults.server_tool_use = <<"code_execution", "web_search">>
  /\ analysis = NoMessage
  /\ debugReport.toolsUsed = <<"web_search", "code_execution">>

----------------------------------------------------------------------------
(* Properties of the commands and their debug sessions (SpecDebug).        *)

\* the command runs SeiDebugAgent.debug
RunsDebug == command.name \in { "debugTransaction", "debugGeneralIssue" }

\* C19: in SeiDebugAgent.debug a failed provider call (interactive
\* analysis, search, code execution or report generation) is the last
\* provider call of the session: it is not issued again and no other call
\* follows; the error thrown to the caller is the error of that call, and
\* no DebugReport is produced.
C19_FailurePropagates ==
  RunsDebug =>
    /\ \A i \in DOMAIN providerCalls :
         providerCalls[i].outcome # "ok" =>
           /\ i = Len(providerCalls)
           /\ thrown = providerCalls[i].outcome
           /\ pc = "failed"
           /\ ~Assembled
    /\ pc = "failed" =>
         /\ providerCalls # <<>>
         /\ providerCalls[Len(providerCalls)].outcome \in ProviderErrors
    /\ Assembled =>
         /\ thrown = "none"
         /\ \A i \in DOMAIN providerCalls : providerCalls[i].outcome = "ok"

\* the code-execution analysis of a transaction fails after two successful
\* provider calls
C19_Witness ==
  /\ command.name = "debugTransaction"
  /\ pc = "failed"
  /\ Len(providerCalls) = 3
  /\ providerCalls[1].outcome = "ok"
  /\ providerCalls[2].outcome = "ok"
  /\ providerCalls[3].op = "analyzeWithCodeExecution"
  /\ providerCalls[3].outcome = "overloaded_error"
  /\ thrown = "overloaded_error"
  /\ ~Assembled

\* h is "0x" followed by exactly 64 hex digits and nothing else
ExactTxHash(h) ==
  /\ Len(h) = 66
  /\ h[1] = "0"
  /\ h[2] = "x"
  /\ \A j \in 3..66 :
       h[j] \in { "0","1","2","3","4","5","6","7","8","9",
                  "a","b","c","d","e","f","A","B","C","D","E","F" }

\* C20: debugTransaction and debugParallelExecution reject every hash
\* argument that is not exactly 0x followed by 64 hex digits with the error
\* "Invalid transaction hash format"; nothing of the agent has run then
\* (no classification, no descriptor, no provider call, no report), and
\* only such arguments are rejected.
C20_InvalidHashRejected ==
  command.name \in { "debugTransaction", "debugParallelExecution" } =>
    /\ ~ExactTxHash(command.arg) =>
         /\ pc \in { "command", "rejected" }
         /\ pc = "rejected" => thrown = "Invalid transaction hash format"
         /\ providerCalls = <<>>
         /\ task = NoTask
         /\ issue = <<>>
         /\ model = NoModel
         /\ ~Assembled
    /\ pc = "rejected" => ~ExactTxHash(command.arg)

\* debugParallelExecution("0x123") has been rejected
C20_Witness ==
  /\ command.name = "debugParallelExecution"
  /\ command.arg = <<"0","x","1","2","3">>
  /\ pc = "rejected"
  /\ thrown = "Invalid transaction hash format"
  /\ providerCalls = <<>>

----------------------------------------------------------------------------
(* Properties of the CLI helpers (SpecHelpers).                            *)

\* C21: validateTxHash(h) is true exactly when the whole of h is "0x"
\* followed by exactly 64 characters from 0-9, a-f, A-F; a missing prefix, a
\* shorter or longer digit run, or a non-hex character makes it false.
C21_ValidateExact ==
  helperValid # "none" =>
    /\ helperValid = "true" <=> ExactTxHash(helperText)
    /\ (Len(helperText) # 66 \/ SubSeq(helperText, 1, 2) # <<"0","x">>)
         => helperValid = "false"
    /\ (\E i \in 3..Len(helperText) :
          toLowerCaseChar(helperText[i]) \notin
            { "0","1","2","3","4","5","6","7","8","9",
              "a","b","c","d","e","f" })
         => helperValid = "false"

\* "0x", 63 hex digits and a "g" has been found invalid
C21_Witness ==
  /\ helperText = <<"0","x">> \o Run(63, "a") \o <<"g">>
  /\ helperValid = "false"

\* the positions of text where "0x" and 64 hex digits start
HashStarts(text) ==
  { i \in 1..(Len(text) - 65) : ExactTxHash(SubSeq(text, i, i + 65)) }

\* C22: extractTxHash returns the leftmost transaction hash of the text,
\* and null when the text contains none; every non-null result satisfies
\* validateTxHash, and a text that satisfies validateTxHash is returned
\* whole.
C22_ExtractLeftmost ==
  helperHash # AbsentText =>
    LET starts == HashStarts(helperText)
    IN  /\ starts = {} <=> helperHash = NullText
        /\ starts # {} =>
             LET i == CHOOSE x \in starts : \A y \in starts : x <= y
             IN  /\ helperHash = SubSeq(helperText, i, i + 65)
                 /\ validateTxHash(helperHash)
                 /\ ExactTxHash(helperHash)
        /\ validateTxHash(helperText) => helperHash = helperText

\* the first of two different hashes has been extracted
C22_Witness ==
  /\ helperText = <<"t","x"," ">> \o HashUpper \o <<" ">> \o HashLower
  /\ helperHash = HashUpper

----------------------------------------------------------------------------
(* Letter case and hash length in classifyIssue (Spec).                    *)

\* the upper-case letter of every lower-case letter
UpperOf ==
  [c \in {LowerChars[i] : i \in 1..26} |->
     UpperChars[CHOOSE i \in 1..26 : LowerChars[i] = c]]

\* s with every letter in upper case
UpperCased(s) ==
  [i \in 1..Len(s) |-> IF s[i] \in DOMAIN UpperOf THEN UpperOf[s[i]] ELSE s[i]]

\* s with every letter but "x" in upper case
UpperCasedKeepX(s) ==
  [i \in 1..Len(s) |->
     IF s[i] \in DOMAIN UpperOf /\ s[i] # "x" THEN UpperOf[s[i]] ELSE s[i]]

\* texts that differ from s in letter case only
CaseVariants(s) == { toLowerCase(s), UpperCased(s), UpperCasedKeepX(s) }

\* two descriptors with the same kind, complexity, flags and estimates
SameClass(a, b) ==
  /\ a.type = b.type
  /\ a.complexity = b.complexity
  /\ a.requiresDeepAnalysis = b.requiresDeepAnalysis
  /\ a.requiresCodeExecution = b.requiresCodeExecution
  /\ a.isSimpleQuery = b.isSimpleQuery
  /\ a.isStatusCheck = b.isStatusCheck
  /\ a.estimatedSearches = b.estimatedSearches
  /\ a.estimatedTokens = b.estimatedTokens

\* C23 as stated: two issue texts that differ only in letter case, the
\* hash's 0x prefix included, are classified alike.
C23_Original ==
  Classified =>
    \A v \in CaseVariants(issue) :
      SameClass(classifyIssue(v, userContext), task)

\* C23: two issue texts that differ only in letter case are classified
\* alike (same kind, complexity, flags and estimates) whenever both or
\* neither contain a lower-case "0x" followed by 64 hex digits, and always
\* when every "x" has the same case in both; keywords and hex digits are
\* matched in either case, the prefix only as "0x".
C23_CaseInsensitive ==
  Classified =>
    /\ \A v \in CaseVariants(issue) :
         (ContainsTxHash(v) <=> ContainsTxHash(issue))
           => SameClass(classifyIssue(v, userContext), task)
    /\ SameClass(classifyIssue(UpperCasedKeepX(issue), userContext), task)
    /\ (ContainsTxHash(issue) /\ ~ContainsTxHash(UpperCased(issue)))
         => classifyIssue(UpperCased(issue), userContext).estimatedSearches = 2

\* "ERROR" followed by a hash with upper-case digits has been classified
C23_Witness ==
  /\ Classified
  /\ issue = <<"E","R","R","O","R">> \o HashUpper
  /\ task.type = "transaction"
  /\ task.complexity = "high"
  /\ toLowerCase(issue) # issue

RECURSIVE HexRunLen(_, _)
\* the number of consecutive hex digits of s from position i on
HexRunLen(s, i) ==
  IF i > Len(s) \/ s[i] \notin HexChars THEN 0
  ELSE 1 + HexRunLen(s, i + 1)

\* the positions of s where a "0x" prefix stands
PrefixStarts(s) ==
  { i \in 1..(Len(s) - 1) : s[i] = "0" /\ s[i + 1] = "x" }

\* the lengths of the hex digit runs that follow the "0x" prefixes of s
PrefixedRuns(s) == { HexRunLen(s, i + 2) : i \in PrefixStarts(s) }

\* the descriptor of the issue was decided without a hash
ClassifiedByKeywords ==
  LET lower == toLowerCase(issue)
  IN  /\ task.type = classifyType(lower, FALSE)
      /\ task.type # "transaction"
      /\ task.estimatedSearches = 2
      /\ task.requiresCodeExecution
           <=> (task.type = "gas" \/ includes(lower, KwAnalyze))

\* C24 as stated: a text whose only 0x-prefixed hex run has fewer or more
\* than 64 hex digits is not treated as containing a hash.
C24_Original ==
  (/\ Classified
   /\ Cardinality(PrefixStarts(issue)) = 1
   /\ HashDigits \notin PrefixedRuns(issue))
    => ClassifiedByKeywords

\* C24: the classifier's hash pattern is 0x followed by at least 64 hex
\* digits: a text whose 0x-prefixed hex runs all have fewer than 64 digits
\* is classified by the keyword rules with estimatedSearches 2 and no
\* code execution on account of a hash, and a text with a 0x-prefixed run
\* of 64 or more digits is a transaction with estimatedSearches 3 and
\* code execution.
C24_HashLength ==
  Classified =>
    IF \E n \in PrefixedRuns(issue) : n >= HashDigits
      THEN /\ task.type = "transaction"
           /\ task.estimatedSearches = 3
           /\ task.requiresCodeExecution
      ELSE ClassifiedByKeywords

\* a text whose only 0x-prefixed run has 65 hex digits has been classified
\* as a transaction
C24_Witness ==
  /\ Classified
  /\ issue = HashLower \o <<"f">>
  /\ PrefixedRuns(issue) = { HashDigits + 1 }
  /\ task.type = "transaction"
  /\ task.estimatedSearches = 3

----------------------------------------------------------------------------
(* The text searched by extractRootCause and extractSuggestions            *)
(* (SpecAssembler).                                                        *)

\* the texts of the text segments of content, in order; a text segment
\* without text counts as the empty text
SegmentTexts(content) ==
  LET ts == SelectSeq(content, LAMBDA c : c.type = "text")
  IN  [ i \in 1..Len(ts) |->
          IF ts[i].text = AbsentText THEN <<>> ELSE ts[i].text ]

RECURSIVE Concatenated(_, _)
\* the first n texts of ts, each but the first preceded by sep
Concatenated(ts, sep) ==
  IF ts = <<>> THEN <<>>
  ELSE IF Len(ts) = 1 THEN ts[1]
  ELSE Concatenated(SubSeq(ts, 1, Len(ts) - 1), sep) \o sep \o ts[Len(ts)]

\* the text segments of the primary response one after the other
PlainText == Concatenated(SegmentTexts(report.content), <<>>)

\* the text segments of the primary response with one space between them
SpacedText == Concatenated(SegmentTexts(report.content), <<" ">>)

\* C25 as stated: the patterns match in the searched text exactly when
\* they match in the plain concatenation of the text segments.
C25_Original ==
  Assembled =>
    /\ debugReport.rootCause # AbsentText
         <=> RootCauseOf(PlainText) # AbsentText
    /\ debugReport.suggestions # AbsentTexts
         <=> SuggestionsOf(PlainText) # AbsentTexts

\* C25: the text searched for the root cause and the suggestions is the
\* primary response's text segments in their original order, non-text
\* segments skipped, with a single space inserted between consecutive text
\* segments; the report's rootCause and suggestions are what the patterns
\* find in that text.
C25_SpaceJoined ==
  Assembled =>
    /\ PrimaryText = SpacedText
    /\ debugReport.rootCause = RootCauseOf(SpacedText)
    /\ debugReport.suggestions = SuggestionsOf(SpacedText)
    /\ Len(SpacedText) =
         Len(PlainText) +
           (IF SegmentTexts(report.content) = <<>> THEN 0
            ELSE Len(SegmentTexts(report.content)) - 1)

\* a label split over two text segments has been found through the
\* inserted space
C25_Witness ==
  /\ Assembled
  /\ report.content = ContentSplitLabel
  /\ debugReport.rootCause = PartWords \o <<".">>
  /\ RootCauseOf(PlainText) = AbsentText

----------------------------------------------------------------------------
(* The provider operations of SeiDebugAgent.debug (SpecDebug).             *)

\* the operations of the provider calls made so far, in order
Ops == [ i \in DOMAIN providerCalls |-> providerCalls[i].op ]

----------------------------------------------------------------------------
(* The tier of classified tasks (Spec).                                    *)

\* C27: for descriptors produced by classifyIssue the Standard tier is
\* selected if and only if the kind is general or contract, the complexity
\* is not high, and the text does not contain "analyze"; every transaction,
\* gas or parallel task gets the High tier, whatever isSimpleQuery and
\* isStatusCheck are.
C27_StandardTier ==
  pc = "estimated" =>
    /\ model \in { SONNET_4, OPUS_4 }
    /\ model = selectModel(task)
    /\ model = SONNET_4 <=>
         /\ task.type \in { "general", "contract" }
         /\ task.complexity # "high"
         /\ ~includes(toLowerCase(issue), KwAnalyze)
    /\ task.type \in { "transaction", "gas", "parallel" } => model = OPUS_4
    /\ ((task.isSimpleQuery \/ task.isStatusCheck) /\ model = SONNET_4)
         => task.type \in { "general", "contract" }

\* the low-complexity question "howgas", a simple query, got the High tier
C27_Witness ==
  /\ pc = "estimated"
  /\ issue = KwHow \o KwGas
  /\ task.type = "gas"
  /\ task.complexity = "low"
  /\ task.isSimpleQuery
  /\ model = OPUS_4

\* C28: the request that generates the final report is always made with
\* the High-tier model, whatever the issue text and whatever tier the
\* session's task selected; every earlier call of the session is made with
\* the tier selected from the session's one task.
C28_ReportTier ==
  \A i \in DOMAIN providerCalls :
    IF Ops[i] = "generateReport"
      THEN providerCalls[i].model = OPUS_4
      ELSE /\ providerCalls[i].model = selectModel(task)
           /\ providerCalls[i].model = providerCalls[1].model
           /\ RunsDebug => /\ task = classifyIssue(issue, userContext)
                           /\ providerCalls[i].model = model

\* a status question answered on the Standard tier has had its report
\* generated on the High tier
C28_Witness ==
  /\ pc = "done"
  /\ issue = TextWhatIsTheStatus
  /\ Len(providerCalls) = 2
  /\ providerCalls[1].op = "debugInteractive"
  /\ providerCalls[1].model = SONNET_4
  /\ providerCalls[2].op = "generateReport"
  /\ providerCalls[2].model = OPUS_4

\* the two tool names, in the order formatMessage lists them
BothTools == <<"web_search", "code_execution">>

\* the responses a session holds
HeldResponses ==
  { m \in { report, searchResults, analysis } : ~IsAbsentMessage(m) }

\* C29: in every DebugReport built from provider responses toolsUsed is
\* either empty or exactly web_search and code_execution: each formatted
\* response reports no tool or both, whichever request it answers, and the
\* report lists both as soon as one response reports them.
C29_NoneOrBothTools ==
  /\ \A m \in HeldResponses : m.server_tool_use \in { <<>>, BothTools }
  /\ Assembled =>
       /\ debugReport.toolsUsed \in { <<>>, BothTools }
       /\ debugReport.toolsUsed = BothTools
            <=> \E m \in HeldResponses : m.server_tool_use = BothTools
       /\ { debugReport.toolsUsed[i] : i \in DOMAIN debugReport.toolsUsed }
            \notin { {"web_search"}, {"code_execution"} }

\* only the documentation search, which declares the web search alone,
\* reported tool use, and the report lists both tools
C29_Witness ==
  /\ pc = "done"
  /\ Ops = <<"debugInteractive", "searchSeiDocs", "generateReport">>
  /\ report.server_tool_use = <<>>
  /\ searchResults.server_tool_use = <<>>
  /\ analysis.server_tool_use = BothTools
  /\ debugReport.toolsUsed = BothTools

----------------------------------------------------------------------------
(* Properties of the interactive prompt loop (SpecInteractive).            *)

\* the line read last leaves the loop
ExitInput == input \in { InputExit, InputQuit }

\* a line has been read and is being dealt with
Handling == ipc \in { "read", "running" }

\* the loop has ended only on "exit" or "quit", and a line that is dealt
\* with is neither while its handler runs
LoopEndsOnExitOnly ==
  /\ ipc = "ended" => ExitInput
  /\ ipc = "running" => ~ExitInput

\* dealing with a line other than "exit" and "quit" never leaves the loop,
\* and a new prompt is counted when it is shown
StaysInLoop ==
  /\ (Handling /\ ~ExitInput) => ipc' \in { "read", "running", "prompt" }
  /\ (Handling /\ ipc' = "prompt") => prompts' = prompts + 1
  /\ (ipc = "running" /\ pc \in { "failed", "rejected" })
       => (ipc' = "prompt" /\ thrown' = thrown)

\* the number of steps the handling of the line read last can still take
\* before the next prompt, at most
StepsLeft ==
  CASE ipc = "read" -> 10
    [] ipc = "running" /\ pc = "command" -> 9
    [] ipc = "running" /\ pc = "start" -> 8
    [] ipc = "running" /\ pc = "classified" -> 7
    [] ipc = "running" /\ pc = "estimated" -> 6
    [] ipc = "running" /\ pc \in { "tx_search", "parallel_search",
                                   "gas_code" } -> 5
    [] ipc = "running" /\ pc \in { "tx_code", "parallel_code" } -> 4
    [] ipc = "running" /\ pc = "report" -> 3
    [] ipc = "running" /\ pc \in { "done", "failed", "rejected" } -> 2
    [] OTHER -> 0

\* the handling of a line is never stuck: the loop or the running command
\* is at a position that has a next step
NeverStuck ==
  (Handling /\ ~ExitInput) =>
    /\ StepsLeft >= 2
    /\ (ipc = "running" /\ pc = "command") =>
         command.name \in { "debugTransaction", "debugParallelExecution",
                            "debugGeneralIssue", "debugGasIssues",
                            "debugContractDeployment",
                            "debugEvmCosmwasmInterop", "debugBlockTiming",
                            "explainSeiFeatures", "analyzePerformance" }

\* every step of the handling brings the next prompt nearer
ComesNearer == Handling => StepsLeft' < StepsLeft

\* C30: in interactive mode the prompt loop ends only on the input "exit"
\* or "quit"; every other line that is read (empty input, help, info,
\* cost, a command whose debug session fails or is rejected, an unknown
\* command run as a general debug of the whole line) is followed by a new
\* prompt after at most ten steps, none of which is stuck, and a failure
\* inside a command ends neither the loop nor the process.
C30_PromptLoop ==
  /\ [](LoopEndsOnExitOnly /\ NeverStuck)
  /\ [][StaysInLoop /\ ComesNearer]_vars

\* a general debug whose provider call failed has been followed by the
\* second prompt
C30_Witness ==
  /\ ipc = "prompt"
  /\ prompts = 2
  /\ command.name = "debugGeneralIssue"
  /\ command.arg = input
  /\ input = TextWhatIsTheStatus
  /\ pc = "failed"
  /\ thrown = "overloaded_error"

====
